---- MODULE Spec2Model ----
(***************************************************************************)
(* Mail portal worker (src/src/index.js): the credential, session and      *)
(* reset-token subsystem as a state machine over the D1 store.             *)
(*                                                                         *)
(* Every `await` on a store statement is one atomic step; the code between *)
(* two store statements touches only the request's own data (and reads    *)
(* the clock) and is folded into the step of the statement that follows    *)
(* it, so the first step of a handler runs from the entry of fetch() to    *)
(* its first store statement.  A handler runs in a slot (Reqs); the        *)
(* cleanupExpired() that fetch() hands to ctx.waitUntil runs beside it     *)
(* (sweeps).  `out` is the response a step returns, with the request       *)
(* it answers: it is there in the state the step leads to and gone after   *)
(* the next step.                                                          *)
(***************************************************************************)
EXTENDS Integers, Sequences, FiniteSets, TLC

\* ------------------------------------------------------------------ bounds
NumReqs   == 2      \* handlers in flight at once
MaxSweeps == 1      \* cleanupExpired() calls in flight at once
MaxTime   == 2      \* the clock runs 0..MaxTime
MaxUsers  == 2      \* crypto.randomUUID() draws
MaxTokens == 3      \* 32-byte token draws (sessions and reset tokens)
MaxMails  == 2      \* inbound messages stored
MaxSalts  == 4      \* 16-byte salt draws
SessionTtl == 2     \* env.SESSION_TTL_SECONDS of the deployment
ResetTtl   == 1     \* env.RESET_TTL_SECONDS of the deployment

\* ------------------------------------------------------- program constants
PBKDF2_MAX_ITERS == 100000
PBKDF2_MIN_ITERS == 10000
DefaultSessionTtl == 1209600
DefaultResetTtl == 3600
DefaultAliasLimit == 3
DefaultMaxStore == 262144
MaxAliasLimit == 1000
MinPwLen == 8
UsernameMinLen == 3
UsernameMaxLen == 24
LocalMaxLen == 64

Reqs == 1..NumReqs
\* Values of env and of JSON bodies: absent, a number, or a text that is no number.
Undefined == [undefined |-> TRUE]
Num(n) == [num |-> n]
NotANumber == [text |-> "abc"]
EmptyText == [text |-> ""]     \* a variable configured as the empty text
Half(n) == [num |-> n, half |-> TRUE]     \* the number n + 0.5
Null == [null |-> TRUE]       \* a SELECT ... first() without a row
NoCookie == 0                 \* getCookie() returned null (or "")
ClearedCookie == -1           \* Set-Cookie: session=; Max-Age=0

VARIABLES
    users,          \* table users
    sessions,       \* table sessions
    reset_tokens,   \* table reset_tokens
    aliases,        \* table aliases
    emails,         \* table emails
    now,            \* Date.now() / 1000
    env,            \* the worker's bindings (configuration)
    req,            \* the handlers of fetch() in flight, by slot
    sweeps,         \* the cleanupExpired() calls handed to ctx.waitUntil
    out,            \* the response the latest step returned, with its request
    outbox,         \* sendResetEmail() calls handed to ctx.waitUntil
    log,            \* what the latest step wrote with console.log
    nextId, nextTok, nextSalt, nextMail,   \* the random draws made so far
    live,           \* history: the sessions createSession() returned, less
                    \* those destroySession() was called for (raced: the
                    \* owner was disabled when the row was written)
    confirmed,      \* history: the confirms that answered 200, as the raw
                    \* token and the salt the request drew
    pwSetBy         \* history: the confirms whose UPDATE users ran, likewise

vars == <<users, sessions, reset_tokens, aliases, emails, now, env, req, out, sweeps,
          outbox, log, nextId, nextTok, nextSalt, nextMail, live, confirmed, pwSetBy>>

store == <<users, sessions, reset_tokens, aliases, emails>>
draws == <<nextId, nextTok, nextSalt, nextMail>>
history == <<live, confirmed, pwSetBy>>

\* ----------------------------------------------------------------- strings
\* A string is a sequence of one-character strings.
Upper == [c \in {"A", "B"} |-> IF c = "A" THEN "a" ELSE "b"]
Whitespace == {" "}

toLowerCase(s) == [i \in 1..Len(s) |-> IF s[i] \in DOMAIN Upper THEN Upper[s[i]] ELSE s[i]]

RECURSIVE trimStart(_)
trimStart(s) == IF s # <<>> /\ Head(s) \in Whitespace THEN trimStart(Tail(s)) ELSE s

RECURSIVE trimEnd(_)
trimEnd(s) ==
    IF s # <<>> /\ s[Len(s)] \in Whitespace THEN trimEnd(SubSeq(s, 1, Len(s) - 1)) ELSE s

trim(s) == trimEnd(trimStart(s))

UsernameChars == {"a", "b", "c", "e", "i", "l", "o", "0", "1", "_"}

\* /^[a-z0-9_]{3,24}$/
ValidUsername(s) ==
    /\ Len(s) >= UsernameMinLen
    /\ Len(s) <= UsernameMaxLen
    /\ \A i \in 1..Len(s) : s[i] \in UsernameChars

\* s.split("@"): the pieces of s between its @ signs
RECURSIVE split(_)
split(s) ==
    IF \A i \in 1..Len(s) : s[i] # "@" THEN <<s>>
    ELSE LET i == CHOOSE k \in 1..Len(s) : s[k] = "@" /\ \A j \in 1..(k - 1) : s[j] # "@"
         IN  <<SubSeq(s, 1, i - 1)>> \o split(SubSeq(s, i + 1, Len(s)))

\* /^[a-z0-9][a-z0-9._+-]{0,63}$/
validLocalPart(s) ==
    /\ Len(s) >= 1
    /\ Len(s) <= LocalMaxLen
    /\ s[1] \in UsernameChars \ {"_"}
    /\ \A i \in 2..Len(s) : s[i] \in UsernameChars \cup {".", "+", "-"}

NoSpaceNoAt(s) == \A i \in 1..Len(s) : s[i] \notin Whitespace \cup {"@"}

\* /^[^\s@]+@[^\s@]+\.[^\s@]+$/
ValidEmail(s) ==
    \E i \in 2..Len(s) :
        /\ s[i] = "@"
        /\ NoSpaceNoAt(SubSeq(s, 1, i - 1))
        /\ LET d == SubSeq(s, i + 1, Len(s))
           IN  /\ NoSpaceNoAt(d)
               /\ \E j \in 2..(Len(d) - 1) : d[j] = "."

\* ------------------------------------------------------------------- utils
\* Number(v): a number is itself, the empty text is 0, any other text of the
\* model is NaN (as is undefined)
Number(v) == IF v = EmptyText THEN Num(0) ELSE v

\* safeInt(v, fallback): Number(v) when finite, else the fallback
isFinite(v) == "num" \in DOMAIN v
safeInt(v, fallback) == IF isFinite(Number(v)) THEN Number(v).num ELSE fallback

\* safeInt(v, fallback) as a value, where the number need not be whole
safeNumber(v, fallback) == IF isFinite(Number(v)) THEN Number(v) ELSE fallback

\* Number.isInteger, and x > k for a whole k
isInteger(v) == isFinite(v) /\ "half" \notin DOMAIN v
Above(v, k) == IF isInteger(v) THEN v.num > k ELSE v.num >= k

Min(a, b) == IF a < b THEN a ELSE b
Max(a, b) == IF a > b THEN a ELSE b

\* C22 (a deviation): the clamp without its floor, Math.min(MAX, x)
clampPbkdf2ItersNoFloor(n) ==
    Min(PBKDF2_MAX_ITERS, safeInt(n, PBKDF2_MAX_ITERS))

clampPbkdf2Iters(n) ==
    Min(PBKDF2_MAX_ITERS, Max(PBKDF2_MIN_ITERS, safeInt(n, PBKDF2_MAX_ITERS)))

pbkdf2Iters(e) ==
    clampPbkdf2Iters(IF e.PBKDF2_ITERS = Undefined THEN Num(PBKDF2_MAX_ITERS) ELSE e.PBKDF2_ITERS)

\* base64Url(bytes): the n-th random draw is the byte string n; its text form
\* is another value, and base64UrlToBytes undoes it.
base64Url(bytes) == 100 + bytes
base64UrlToBytes(text) == text - 100

\* crypto.getRandomValues(new Uint8Array(16)): the n-th salt draw. Its 16
\* bytes are never the 32 bytes of a token draw (the byte strings 1, 2, ...).
getRandomValues16Again(n) == 50 + 1     \* C24 (a deviation): the same salt each time
getRandomValues16(n) == 50 + n

\* sha256Base64Url(encoder.encode(text)): deterministic, injective on the
\* texts of the model, and never the text itself.
sha256Base64Url(text) == 1000 + text

\* pbkdf2HashBase64Url(password, saltBytes, iterations): injective in its
\* three arguments; throws above the ceiling.
pbkdf2ThrowsNever(iterations) == FALSE     \* C23 (a deviation): no ceiling check
pbkdf2Throws(iterations) == iterations > PBKDF2_MAX_ITERS
pbkdf2HashBase64Url(password, saltBytes, iterations) ==
    <<password, saltBytes, iterations>>

\* The uncapped variant: pbkdf2HashBase64Url(password, saltBytes,
\* iterations = 310000), which its callers call with two arguments.
UncappedIters == 310000
pbkdf2HashBase64UrlUncapped(password, saltBytes, iterations) ==
    <<password, saltBytes, IF iterations = Undefined THEN UncappedIters ELSE iterations>>

\* --------------------------------------------------------------- responses
Response(status, error, cookie, user) ==
    [status |-> status, error |-> error, cookie |-> cookie, user |-> user, data |-> Null]
json(status, error) == Response(status, error, NoCookie, Null)
Ok == json(200, "")
jsonData(rows) == [Ok EXCEPT !.data = rows]     \* json({ ok: true, <rows> })
badRequest(msg) == json(400, msg)
unauthorized(msg) == json(401, msg)
forbidden(msg) == json(403, msg)
notFound == json(404, "Not found")
NoResponse == json(0, "")

\* ------------------------------------------------------------------- state
DefaultEnv ==
    [SESSION_TTL_SECONDS |-> Num(SessionTtl),
     RESET_TTL_SECONDS   |-> Num(ResetTtl),
     PBKDF2_ITERS        |-> Undefined,
     DEFAULT_ALIAS_LIMIT |-> Undefined,
     RESEND_API_KEY      |-> Undefined,
     MAIL_DOMAIN         |-> <<"b", ".", "i", "o">>,     \* env.DOMAIN
     MAX_STORE_BYTES     |-> Undefined,
     DB                  |-> [pass_iters |-> TRUE, table_info |-> "ok"]]

IdleSlot ==
    [op |-> "none", pc |-> "idle", cookie |-> NoCookie, body |-> Null, l |-> Null]

Answer(op, cookie, body, resp) == [op |-> op, cookie |-> cookie, body |-> body, resp |-> resp]
NoAnswer == Answer("none", NoCookie, Null, NoResponse)
NoLog == ""

\* The message of the error a failing store statement throws.
StoreErrorText == "D1_ERROR"

InitStore ==
    /\ users = {}
    /\ sessions = {}
    /\ reset_tokens = {}
    /\ aliases = {}
    /\ emails = {}
    /\ now = 0
    /\ req = [r \in Reqs |-> IdleSlot]
    /\ out = NoAnswer
    /\ sweeps = {}
    /\ outbox = {}
    /\ log = NoLog
    /\ nextId = 1
    /\ nextTok = 1
    /\ nextSalt = 1
    /\ nextMail = 1
    /\ live = {}
    /\ confirmed = {}
    /\ pwSetBy = {}

Init == InitStore /\ env = DefaultEnv

\* usersHasPassIters(env): USERS_HAS_PASS_ITERS, which the isolate sets at its
\* first call and keeps. DB.pass_iters: the table has the column;
\* DB.table_info: how this isolate's PRAGMA table_info(users) ends, "ok" or
\* "throws" (the catch sets false).
usersHasPassIters(e) == e.DB.pass_iters /\ e.DB.table_info = "ok"

At(r, op, pc) == req[r].op = op /\ req[r].pc = pc

\* ctx.waitUntil(cleanupExpired(env)): const t = nowSec(), and the first
\* DELETE is on its way.
NewSweep == [t |-> now, stage |-> "sessions"]

\* A request can start while a slot is idle (before its first request and
\* after each response) and another cleanupExpired() may start; it takes the
\* first idle slot.
Free(r) ==
    /\ req[r].pc = "idle"
    /\ \A q \in Reqs : req[q].pc = "idle" => r <= q
    /\ NewSweep \in sweeps \/ Cardinality(sweeps) < MaxSweeps

\* fetch() has run up to its first store statement and goes on.
Begin(r, op, pc, cookie, body, l) ==
    /\ req' = [req EXCEPT ![r] = [op |-> op, pc |-> pc, cookie |-> cookie,
                                  body |-> body, l |-> l]]
    /\ sweeps' = sweeps \cup {NewSweep}
    /\ out' = NoAnswer

\* C27 (a deviation): a request answered before its first store statement
\* returns without the ctx.waitUntil(cleanupExpired(env))
RespondNoSweep(op, cookie, body, resp) ==
    /\ req' = req
    /\ sweeps' = sweeps
    /\ out' = Answer(op, cookie, body, resp)

\* fetch() answers in its first step.
Respond(op, cookie, body, resp) ==
    /\ req' = req
    /\ sweeps' = sweeps \cup {NewSweep}
    /\ out' = Answer(op, cookie, body, resp)

\* The handler goes on to its next store statement.
Goto(r, pc, l) ==
    /\ req' = [req EXCEPT ![r].pc = pc, ![r].l = l]
    /\ sweeps' = sweeps
    /\ out' = NoAnswer

\* The handler returns its response in a later step.
Reply(r, resp) ==
    /\ req' = [req EXCEPT ![r] = IdleSlot]
    /\ sweeps' = sweeps
    /\ out' = Answer(req[r].op, req[r].cookie, req[r].body, resp)

\* ------------------------------------------------------------- deviations
\* Each of these departs from the source in one place; the claim named with
\* it fails when it stands in for the definition it departs from.

\* C1: getUserBySession without AND s.expires_at > ?
getUserBySessionAnyAge(cookie) ==
    IF cookie = NoCookie THEN Null
    ELSE LET tokenHash == sha256Base64Url(cookie)
             rows == {su \in sessions \X users :
                          /\ su[2].id = su[1].user_id
                          /\ su[1].token_hash = tokenHash}
         IN  IF rows = {} THEN Null
             ELSE LET su == CHOOSE x \in rows : TRUE
                      u == su[2]
                  IN  IF u.disabled # 0 THEN Null
                      ELSE [user_id |-> su[1].user_id, id |-> u.id,
                            username |-> u.username, email |-> u.email,
                            role |-> u.role, alias_limit |-> u.alias_limit,
                            disabled |-> u.disabled]

\* C3: getUserBySession with AND s.expires_at >= ?
getUserBySessionAtExpiry(cookie) ==
    IF cookie = NoCookie THEN Null
    ELSE LET tokenHash == sha256Base64Url(cookie)
             rows == {su \in sessions \X users :
                          /\ su[2].id = su[1].user_id
                          /\ su[1].token_hash = tokenHash
                          /\ su[1].expires_at >= now}
         IN  IF rows = {} THEN Null
             ELSE LET su == CHOOSE x \in rows : TRUE
                      u == su[2]
                  IN  IF u.disabled # 0 THEN Null
                      ELSE [user_id |-> su[1].user_id, id |-> u.id,
                            username |-> u.username, email |-> u.email,
                            role |-> u.role, alias_limit |-> u.alias_limit,
                            disabled |-> u.disabled]

\* C4: getUserBySession without if (row.disabled) return null
getUserBySessionAnyOwner(cookie) ==
    IF cookie = NoCookie THEN Null
    ELSE LET tokenHash == sha256Base64Url(cookie)
             rows == {su \in sessions \X users :
                          /\ su[2].id = su[1].user_id
                          /\ su[1].token_hash = tokenHash
                          /\ su[1].expires_at > now}
         IN  IF rows = {} THEN Null
             ELSE LET su == CHOOSE x \in rows : TRUE
                      u == su[2]
                  IN  [user_id |-> su[1].user_id, id |-> u.id,
                       username |-> u.username, email |-> u.email,
                       role |-> u.role, alias_limit |-> u.alias_limit,
                       disabled |-> u.disabled]

\* C2: createSession with expiresAt = t
createSessionNoTtl(r, userId, ttlSeconds) ==
    /\ nextTok <= MaxTokens
    /\ LET token == base64Url(nextTok)
           tokenHash == sha256Base64Url(token)
           t == now
       IN  /\ sessions' = sessions \cup
                  {[token_hash |-> tokenHash, user_id |-> userId,
                    expires_at |-> t, created_at |-> t]}
           /\ live' = live \cup
                  {[token |-> token, user_id |-> userId, t |-> t, ttl |-> ttlSeconds,
                    raced |-> \E u \in users : u.id = userId /\ u.disabled # 0]}
           /\ Reply(r, Response(200, "", token, Null))
    /\ nextTok' = nextTok + 1
    /\ log' = NoLog /\ UNCHANGED <<users, reset_tokens, now, env, outbox, nextId, nextSalt,
                   confirmed, pwSetBy, aliases, emails, nextMail>>

\* C18: createSession that first deletes the other sessions of the user
createSessionSingle(r, userId, ttlSeconds) ==
    /\ nextTok <= MaxTokens
    /\ LET token == base64Url(nextTok)
           tokenHash == sha256Base64Url(token)
           t == now
       IN  /\ sessions' = {s \in sessions : s.user_id # userId} \cup
                  {[token_hash |-> tokenHash, user_id |-> userId,
                    expires_at |-> t + ttlSeconds, created_at |-> t]}
           /\ live' = live \cup
                  {[token |-> token, user_id |-> userId, t |-> t, ttl |-> ttlSeconds,
                    raced |-> \E u \in users : u.id = userId /\ u.disabled # 0]}
           /\ Reply(r, Response(200, "", token, Null))
    /\ nextTok' = nextTok + 1
    /\ log' = NoLog /\ UNCHANGED <<users, reset_tokens, now, env, outbox, nextId, nextSalt,
                   confirmed, pwSetBy, aliases, emails, nextMail>>

\* C8: the expiry check of reset/confirm as if (!rt)
ResetTokenUsableAnyAge(rows) == rows # {}

\* C9: the lookup of reset/request as if (!user)
NoResetForAbsent(rows) == rows = {}

\* ---------------------------------------------------------- session helpers
\* The row of sessions JOIN users for a cookie, or Null.
getUserBySession(cookie) ==
    IF cookie = NoCookie THEN Null
    ELSE LET tokenHash == sha256Base64Url(cookie)
             rows == {su \in sessions \X users :
                          /\ su[2].id = su[1].user_id
                          /\ su[1].token_hash = tokenHash
                          /\ su[1].expires_at > now}
         IN  IF rows = {} THEN Null
             ELSE LET su == CHOOSE x \in rows : TRUE
                      u == su[2]
                  IN  IF u.disabled # 0 THEN Null
                      ELSE [user_id |-> su[1].user_id, id |-> u.id,
                            username |-> u.username, email |-> u.email,
                            role |-> u.role, alias_limit |-> u.alias_limit,
                            disabled |-> u.disabled]

\* createSession(env, userId, ttlSeconds), and the 200 that carries the cookie.
createSession(r, userId, ttlSeconds) ==
    /\ nextTok <= MaxTokens
    /\ LET token == base64Url(nextTok)
           tokenHash == sha256Base64Url(token)
           t == now
       IN  /\ sessions' = sessions \cup
                  {[token_hash |-> tokenHash, user_id |-> userId,
                    expires_at |-> t + ttlSeconds, created_at |-> t]}
           /\ live' = live \cup
                  {[token |-> token, user_id |-> userId, t |-> t, ttl |-> ttlSeconds,
                    raced |-> \E u \in users : u.id = userId /\ u.disabled # 0]}
           /\ Reply(r, Response(200, "", token, Null))
    /\ nextTok' = nextTok + 1
    /\ log' = NoLog /\ UNCHANGED <<users, reset_tokens, now, env, outbox, nextId, nextSalt,
                   confirmed, pwSetBy, aliases, emails, nextMail>>

\* C14 (a deviation): destroySession deleting every session of the cookie's
\* owner (DELETE FROM sessions WHERE user_id = ...)
destroySessionOfUser(cookie) ==
    IF cookie = NoCookie THEN sessions
    ELSE LET mine == {s \in sessions : s.token_hash = sha256Base64Url(cookie)}
         IN  {s \in sessions : \A m \in mine : s.user_id # m.user_id}

\* destroySession(request, env): the table sessions after it.
destroySession(cookie) ==
    IF cookie = NoCookie THEN sessions
    ELSE {s \in sessions : s.token_hash # sha256Base64Url(cookie)}

\* C15 (a deviation): DELETE FROM sessions WHERE expires_at < t
cleanupSessionsBefore(sw) ==
    /\ sw \in sweeps
    /\ sw.stage = "sessions"
    /\ sessions' = {s \in sessions : ~(s.expires_at < sw.t)}
    /\ sweeps' = (sweeps \ {sw}) \cup {[sw EXCEPT !.stage = "reset_tokens"]}
    /\ out' = NoAnswer
    /\ log' = NoLog /\ UNCHANGED <<users, reset_tokens, now, env, req, outbox, draws, history, aliases, emails>>

\* C16 (a deviation): DELETE FROM sessions WHERE expires_at <= t + 1
cleanupSessionsEager(sw) ==
    /\ sw \in sweeps
    /\ sw.stage = "sessions"
    /\ sessions' = {s \in sessions : ~(s.expires_at <= sw.t + 1)}
    /\ sweeps' = (sweeps \ {sw}) \cup {[sw EXCEPT !.stage = "reset_tokens"]}
    /\ out' = NoAnswer
    /\ log' = NoLog /\ UNCHANGED <<users, reset_tokens, now, env, req, outbox, draws, history, aliases, emails>>

\* cleanupExpired(env): DELETE FROM sessions WHERE expires_at <= t
cleanupSessions(sw) ==
    /\ sw \in sweeps
    /\ sw.stage = "sessions"
    /\ sessions' = {s \in sessions : ~(s.expires_at <= sw.t)}
    /\ sweeps' = (sweeps \ {sw}) \cup {[sw EXCEPT !.stage = "reset_tokens"]}
    /\ out' = NoAnswer
    /\ log' = NoLog /\ UNCHANGED <<users, reset_tokens, now, env, req, outbox, draws, history, aliases, emails>>

\* cleanupExpired(env): DELETE FROM reset_tokens WHERE expires_at <= t
cleanupResetTokens(sw) ==
    /\ sw \in sweeps
    /\ sw.stage = "reset_tokens"
    /\ reset_tokens' = {x \in reset_tokens : ~(x.expires_at <= sw.t)}
    /\ sweeps' = sweeps \ {sw}
    /\ out' = NoAnswer
    /\ log' = NoLog /\ UNCHANGED <<users, sessions, now, env, req, outbox, draws, history, aliases, emails>>

\* C17 (a deviation): the store error of the sweep reaches the handlers in
\* flight, which end with the 500 of the catch of fetch().
cleanupSessionsFailsThrows(sw) ==
    /\ sw \in sweeps
    /\ sw.stage = "sessions"
    /\ log' = "cleanup sessions error"
    /\ sweeps' = (sweeps \ {sw}) \cup {[sw EXCEPT !.stage = "reset_tokens"]}
    /\ req' = [r \in Reqs |-> IdleSlot]
    /\ out' = Answer("none", NoCookie, Null, json(500, StoreErrorText))
    /\ UNCHANGED <<store, now, env, outbox, draws, history>>

\* cleanupExpired(env): the DELETE FROM sessions throws; the catch logs it
\* and the sweep goes on to its second statement.
cleanupSessionsFails(sw) ==
    /\ sw \in sweeps
    /\ sw.stage = "sessions"
    /\ log' = "cleanup sessions error"
    /\ sweeps' = (sweeps \ {sw}) \cup {[sw EXCEPT !.stage = "reset_tokens"]}
    /\ out' = NoAnswer
    /\ UNCHANGED <<store, now, env, req, outbox, draws, history>>

\* cleanupExpired(env): the DELETE FROM reset_tokens throws; the catch logs it.
cleanupResetTokensFails(sw) ==
    /\ sw \in sweeps
    /\ sw.stage = "reset_tokens"
    /\ log' = "cleanup reset_tokens error"
    /\ sweeps' = sweeps \ {sw}
    /\ out' = NoAnswer
    /\ UNCHANGED <<store, now, env, req, outbox, draws, history>>

\* nowSec() moves on.
Tick ==
    /\ now < MaxTime
    /\ now' = now + 1
    /\ out' = NoAnswer
    /\ log' = NoLog /\ UNCHANGED <<store, env, req, sweeps, outbox, draws, history>>

\* A deployment or a fresh isolate, between requests: env.PBKDF2_ITERS as
\* configured now, USERS_HAS_PASS_ITERS null again and this isolate's PRAGMA
\* ending as table_info says.
Deploy(iters, table_info) ==
    /\ \A r \in Reqs : req[r].pc = "idle"
    /\ env' = [env EXCEPT !.PBKDF2_ITERS = iters, !.DB.table_info = table_info]
    /\ env' # env
    /\ out' = NoAnswer
    /\ log' = NoLog /\ UNCHANGED <<store, now, req, sweeps, outbox, draws, history>>

\* ------------------------------------------------------------------ signup
\* C11 (a deviation): the role as count <= 1 ? "admin" : "user"
SignupRoleOffByOne(count) == IF count <= 1 THEN "admin" ELSE "user"

\* The role a signup takes from SELECT COUNT(*) FROM users.
SignupRole(count) == IF count = 0 THEN "admin" ELSE "user"

\* C30 (a deviation): signup with the email trimmed but not lower-cased
FetchSignupEmailAsTyped(r, body) ==
    /\ Free(r)
    /\ IF body = Null THEN Respond("signup", NoCookie, body, badRequest("JSON required"))
       ELSE LET username == toLowerCase(trim(body.username))
                email == trim(body.email)
                pw == body.pw
            IN  IF ~ValidUsername(username)
                THEN Respond("signup", NoCookie, body, badRequest("Username 3-24, a-z0-9_"))
                ELSE IF ~ValidEmail(email)
                THEN Respond("signup", NoCookie, body, badRequest("Email tidak valid"))
                ELSE IF Len(pw) < MinPwLen
                THEN Respond("signup", NoCookie, body,
                             badRequest("Password minimal 8 karakter"))
                ELSE /\ nextSalt <= MaxSalts
                     /\ nextId <= MaxUsers
                     /\ LET iters == pbkdf2Iters(env)
                            salt == getRandomValues16(nextSalt)
                        IN  Begin(r, "signup", "insert", NoCookie, body,
                                  [username |-> username, email |-> email,
                                   pass_salt |-> base64Url(salt),
                                   pass_hash |-> pbkdf2HashBase64Url(pw, salt, iters),
                                   iters |-> iters, t |-> now, id |-> nextId,
                                   role |-> SignupRole(Cardinality(users)),
                                   aliasLimit |-> safeNumber(env.DEFAULT_ALIAS_LIMIT,
                                                            Num(DefaultAliasLimit))])
    /\ nextSalt' = IF req'[r].pc = "insert" THEN nextSalt + 1 ELSE nextSalt
    /\ nextId' = IF req'[r].pc = "insert" THEN nextId + 1 ELSE nextId
    /\ log' = NoLog /\ UNCHANGED <<store, now, env, outbox, nextTok, history, nextMail>>

\* POST /api/auth/signup: readJson, normalisation, validation, salt and hash,
\* nowSec(), crypto.randomUUID(), SELECT COUNT(*) FROM users.
FetchSignup(r, body) ==
    /\ Free(r)
    /\ IF body = Null THEN Respond("signup", NoCookie, body, badRequest("JSON required"))
       ELSE LET username == toLowerCase(trim(body.username))
                email == toLowerCase(trim(body.email))
                pw == body.pw
            IN  IF ~ValidUsername(username)
                THEN Respond("signup", NoCookie, body, badRequest("Username 3-24, a-z0-9_"))
                ELSE IF ~ValidEmail(email)
                THEN Respond("signup", NoCookie, body, badRequest("Email tidak valid"))
                ELSE IF Len(pw) < MinPwLen
                THEN Respond("signup", NoCookie, body,
                             badRequest("Password minimal 8 karakter"))
                ELSE /\ nextSalt <= MaxSalts
                     /\ nextId <= MaxUsers
                     /\ LET iters == pbkdf2Iters(env)
                            salt == getRandomValues16(nextSalt)
                        IN  Begin(r, "signup", "insert", NoCookie, body,
                                  [username |-> username, email |-> email,
                                   pass_salt |-> base64Url(salt),
                                   pass_hash |-> pbkdf2HashBase64Url(pw, salt, iters),
                                   iters |-> iters, t |-> now, id |-> nextId,
                                   role |-> SignupRole(Cardinality(users)),
                                   aliasLimit |-> safeNumber(env.DEFAULT_ALIAS_LIMIT,
                                                            Num(DefaultAliasLimit))])
    /\ nextSalt' = IF req'[r].pc = "insert" THEN nextSalt + 1 ELSE nextSalt
    /\ nextId' = IF req'[r].pc = "insert" THEN nextId + 1 ELSE nextId
    /\ log' = NoLog /\ UNCHANGED <<store, now, env, outbox, nextTok, history, nextMail>>

\* POST /api/auth/signup of the uncapped variant: the same up to the hash,
\* which is called without iterations; its INSERT binds no pass_iters.
FetchSignupUncapped(r, body) ==
    /\ Free(r)
    /\ IF body = Null THEN Respond("signup", NoCookie, body, badRequest("JSON required"))
       ELSE LET username == toLowerCase(trim(body.username))
                email == toLowerCase(trim(body.email))
                pw == body.pw
            IN  IF ~ValidUsername(username)
                THEN Respond("signup", NoCookie, body, badRequest("Username 3-24, a-z0-9_"))
                ELSE IF ~ValidEmail(email)
                THEN Respond("signup", NoCookie, body, badRequest("Email tidak valid"))
                ELSE IF Len(pw) < MinPwLen
                THEN Respond("signup", NoCookie, body,
                             badRequest("Password minimal 8 karakter"))
                ELSE /\ nextSalt <= MaxSalts
                     /\ nextId <= MaxUsers
                     /\ LET iters == 0
                            salt == getRandomValues16(nextSalt)
                        IN  Begin(r, "signup", "insert", NoCookie, body,
                                  [username |-> username, email |-> email,
                                   pass_salt |-> base64Url(salt),
                                   pass_hash |-> pbkdf2HashBase64UrlUncapped(pw, salt, Undefined),
                                   iters |-> iters, t |-> now, id |-> nextId,
                                   role |-> SignupRole(Cardinality(users)),
                                   aliasLimit |-> safeNumber(env.DEFAULT_ALIAS_LIMIT,
                                                            Num(DefaultAliasLimit))])
    /\ nextSalt' = IF req'[r].pc = "insert" THEN nextSalt + 1 ELSE nextSalt
    /\ nextId' = IF req'[r].pc = "insert" THEN nextId + 1 ELSE nextId
    /\ log' = NoLog /\ UNCHANGED <<store, now, env, outbox, nextTok, history, nextMail>>

\* The INSERT throws another error than UNIQUE (a store error): the catch
\* around it logs the message and answers 500 "DB error".
SignupInsertFails(r) ==
    /\ At(r, "signup", "insert")
    /\ Reply(r, json(500, "DB error"))
    /\ log' = "signup db error" /\ UNCHANGED <<store, now, env, outbox, draws, history>>

\* The UNIQUE constraints of users.
UniqueViolation(row) ==
    \E u \in users : u.id = row.id \/ u.username = row.username \/ u.email = row.email

\* C12 (a deviation): the catch around the INSERT swallows the UNIQUE error
\* and the handler goes on to createSession
SignupInsertGoesOn(r) ==
    /\ At(r, "signup", "insert")
    /\ LET l == req[r].l
           row == [id |-> l.id, username |-> l.username, email |-> l.email,
                   pass_salt |-> l.pass_salt, pass_hash |-> l.pass_hash,
                   pass_iters |-> IF usersHasPassIters(env) THEN l.iters ELSE 0,
                   role |-> l.role, alias_limit |-> l.aliasLimit, disabled |-> 0,
                   created_at |-> l.t]
       IN  /\ Goto(r, "session", [id |-> l.id])
           /\ users' = IF UniqueViolation(row) THEN users ELSE users \cup {row}
    /\ log' = NoLog /\ UNCHANGED <<sessions, reset_tokens, now, env, outbox, draws, history, aliases, emails>>

\* INSERT INTO users (...), and the catch around it
SignupInsert(r) ==
    /\ At(r, "signup", "insert")
    /\ LET l == req[r].l
           row == [id |-> l.id, username |-> l.username, email |-> l.email,
                   pass_salt |-> l.pass_salt, pass_hash |-> l.pass_hash,
                   pass_iters |-> IF usersHasPassIters(env) THEN l.iters ELSE 0,
                   role |-> l.role, alias_limit |-> l.aliasLimit, disabled |-> 0,
                   created_at |-> l.t]
       IN  IF UniqueViolation(row)
           THEN /\ Reply(r, badRequest("Username/email sudah dipakai"))
                /\ users' = users
           ELSE /\ Goto(r, "session", [id |-> l.id])
                /\ users' = users \cup {row}
    /\ log' = NoLog /\ UNCHANGED <<sessions, reset_tokens, now, env, outbox, draws, history, aliases, emails>>

\* createSession(env, id, ttl) and the 200 with Set-Cookie
SignupSession(r) ==
    /\ At(r, "signup", "session")
    /\ createSession(r, req[r].l.id, safeInt(env.SESSION_TTL_SECONDS, DefaultSessionTtl))

\* C21 (a deviation): login answering a disabled account with its own 403
FetchLoginTellsDisabled(r, body) ==
    /\ Free(r)
    /\ IF body = Null THEN Respond("login", NoCookie, Null, badRequest("JSON required"))
       ELSE LET id == toLowerCase(trim(body.id))
                rows == {u \in users : u.username = id \/ u.email = id}
            IN  IF id = <<>> \/ body.pw = <<>>
                THEN Respond("login", NoCookie, body, badRequest("Lengkapi data"))
                ELSE IF rows = {}
                THEN Respond("login", NoCookie, body, unauthorized("Login gagal"))
                ELSE LET user == CHOOSE u \in rows : TRUE
                         saltBytes == base64UrlToBytes(user.pass_salt)
                         userIters == IF usersHasPassIters(env) /\ user.pass_iters # 0
                                      THEN user.pass_iters
                                      ELSE pbkdf2Iters(env)
                     IN  IF user.disabled # 0
                         THEN Respond("login", NoCookie, body, forbidden("Akun nonaktif"))
                         ELSE IF pbkdf2Throws(userIters)
                         THEN Respond("login", NoCookie, body,
                                      json(500, "PBKDF2 iterations too high for Workers"))
                         ELSE IF pbkdf2HashBase64Url(body.pw, saltBytes, userIters)
                                     # user.pass_hash
                         THEN Respond("login", NoCookie, body, unauthorized("Login gagal"))
                         ELSE Begin(r, "login", "session", NoCookie, body, [id |-> user.id])
    /\ log' = NoLog /\ UNCHANGED <<store, now, env, outbox, draws, history>>

\* ------------------------------------------------------------------- login
\* POST /api/auth/login: readJson, the empty-field check,
\* SELECT ... FROM users WHERE username = ? OR email = ?, and the verification
FetchLogin(r, body) ==
    /\ Free(r)
    /\ IF body = Null THEN Respond("login", NoCookie, Null, badRequest("JSON required"))
       ELSE LET id == toLowerCase(trim(body.id))
                rows == {u \in users : u.username = id \/ u.email = id}
            IN  IF id = <<>> \/ body.pw = <<>>
                THEN Respond("login", NoCookie, body, badRequest("Lengkapi data"))
                ELSE IF rows = {}
                THEN Respond("login", NoCookie, body, unauthorized("Login gagal"))
                ELSE LET user == CHOOSE u \in rows : TRUE
                         saltBytes == base64UrlToBytes(user.pass_salt)
                         userIters == IF usersHasPassIters(env) /\ user.pass_iters # 0
                                      THEN user.pass_iters
                                      ELSE pbkdf2Iters(env)
                     IN  IF user.disabled # 0
                         THEN Respond("login", NoCookie, body, unauthorized("Login gagal"))
                         ELSE IF pbkdf2Throws(userIters)
                         THEN Respond("login", NoCookie, body,
                                      json(500, "PBKDF2 iterations too high for Workers"))
                         ELSE IF pbkdf2HashBase64Url(body.pw, saltBytes, userIters)
                                     # user.pass_hash
                         THEN Respond("login", NoCookie, body, unauthorized("Login gagal"))
                         ELSE Begin(r, "login", "session", NoCookie, body, [id |-> user.id])
    /\ log' = NoLog /\ UNCHANGED <<store, now, env, outbox, draws, history>>

\* The INSERT of createSession throws (a store error): the catch of fetch()
\* logs it and answers 500 with the error's message.
LoginSessionFails(r) ==
    /\ At(r, "login", "session")
    /\ Reply(r, json(500, StoreErrorText))
    /\ log' = "api error" /\ UNCHANGED <<store, now, env, outbox, draws, history>>

\* createSession(env, user.id, ttl) and the 200 with Set-Cookie
LoginSession(r) ==
    /\ At(r, "login", "session")
    /\ createSession(r, req[r].l.id, safeInt(env.SESSION_TTL_SECONDS, DefaultSessionTtl))

\* ------------------------------------------------------------------ logout
\* POST /api/auth/logout: destroySession and the 200 that clears the cookie
FetchLogout(cookie) ==
    /\ \E r \in Reqs : Free(r)
    /\ sessions' = destroySession(cookie)
    /\ live' = {i \in live : i.token # cookie}
    /\ Respond("logout", cookie, Null, Response(200, "", ClearedCookie, Null))
    /\ log' = NoLog /\ UNCHANGED <<users, reset_tokens, now, env, outbox, draws, confirmed, pwSetBy, aliases, emails>>

\* --------------------------------------------------- authenticated requests
\* GET /api/me: const me = await getUserBySession(request, env);
\* if (!me) return unauthorized(); then the answer from the row.
FetchMe(cookie) ==
    /\ \E r \in Reqs : Free(r)
    /\ LET me == getUserBySession(cookie)
       IN  IF me = Null THEN Respond("me", cookie, Null, unauthorized("Unauthorized"))
           ELSE Respond("me", cookie, Null,
                        Response(200, "", NoCookie,
                                 [id |-> me.id, username |-> me.username,
                                  email |-> me.email, role |-> me.role,
                                  alias_limit |-> me.alias_limit]))
    /\ log' = NoLog /\ UNCHANGED <<store, now, env, outbox, draws, history>>

\* GET /api/admin/users: the auth gate and the role check
FetchAdminList(r, cookie) ==
    /\ Free(r)
    /\ LET me == getUserBySession(cookie)
       IN  IF me = Null
           THEN Respond("adminList", cookie, Null, unauthorized("Unauthorized"))
           ELSE IF me.role # "admin"
           THEN Respond("adminList", cookie, Null, forbidden("Forbidden"))
           ELSE Begin(r, "adminList", "select", cookie, Null, Null)
    /\ log' = NoLog /\ UNCHANGED <<store, now, env, outbox, draws, history>>

\* SELECT id, username, email, role, alias_limit, disabled, created_at
\* FROM users
AdminListSelect(r) ==
    /\ At(r, "adminList", "select")
    /\ Reply(r, jsonData({[id |-> u.id, username |-> u.username, email |-> u.email,
                           role |-> u.role, alias_limit |-> u.alias_limit,
                           disabled |-> u.disabled, created_at |-> u.created_at] :
                              u \in users}))
    /\ log' = NoLog /\ UNCHANGED <<store, now, env, outbox, draws, history>>

\* C34 (a deviation): PATCH /api/admin/users/:id without its role check
FetchAdminPatchAnyRole(r, cookie, body) ==
    /\ Free(r)
    /\ LET me == getUserBySession(cookie)
       IN  IF me = Null
           THEN Respond("adminPatch", cookie, Null, unauthorized("Unauthorized"))
           ELSE IF body = Null
           THEN Respond("adminPatch", cookie, Null, badRequest("JSON required"))
           ELSE Begin(r, "adminPatch", "update", cookie, body, Null)
    /\ log' = NoLog /\ UNCHANGED <<store, now, env, outbox, draws, history>>

\* C29 (a deviation): PATCH /api/admin/users/:id placed above the gate
FetchAdminPatchUngated(r, cookie, body) ==
    /\ Free(r)
    /\ LET alias_limit == IF body.alias_limit # Undefined
                                   THEN safeNumber(body.alias_limit, NotANumber) ELSE Undefined
           disabled == IF body.disabled # Undefined
                                THEN safeNumber(body.disabled, NotANumber) ELSE Undefined
       IN  IF alias_limit # Undefined /\
              (~isFinite(alias_limit) \/ alias_limit.num < 0
                   \/ Above(alias_limit, MaxAliasLimit))
           THEN Respond("adminPatch", cookie, Null, badRequest("alias_limit invalid"))
           ELSE IF disabled # Undefined /\
                   ~(isInteger(disabled) /\ disabled.num \in {0, 1})
           THEN Respond("adminPatch", cookie, Null, badRequest("disabled invalid"))
           ELSE IF alias_limit = Undefined /\ disabled = Undefined
           THEN Respond("adminPatch", cookie, Null, badRequest("No fields"))
           ELSE Begin(r, "adminPatch", "update", cookie, body, Null)
    /\ log' = NoLog /\ UNCHANGED <<store, now, env, outbox, draws, history>>

\* PATCH /api/admin/users/:id (body.target being the :id): the auth gate, the
\* role check and the validation, up to the UPDATE
FetchAdminPatch(r, cookie, body) ==
    /\ Free(r)
    /\ LET me == getUserBySession(cookie)
       IN  IF me = Null
           THEN Respond("adminPatch", cookie, Null, unauthorized("Unauthorized"))
           ELSE IF me.role # "admin"
           THEN Respond("adminPatch", cookie, Null, forbidden("Forbidden"))
           ELSE IF body = Null
           THEN Respond("adminPatch", cookie, Null, badRequest("JSON required"))
           ELSE LET alias_limit == IF body.alias_limit # Undefined
                                   THEN safeNumber(body.alias_limit, NotANumber) ELSE Undefined
                    disabled == IF body.disabled # Undefined
                                THEN safeNumber(body.disabled, NotANumber) ELSE Undefined
                IN  IF alias_limit # Undefined /\
                       (~isFinite(alias_limit) \/ alias_limit.num < 0
                            \/ Above(alias_limit, MaxAliasLimit))
                    THEN Respond("adminPatch", cookie, Null,
                                 badRequest("alias_limit invalid"))
                    ELSE IF disabled # Undefined /\
                            ~(isInteger(disabled) /\ disabled.num \in {0, 1})
                    THEN Respond("adminPatch", cookie, Null,
                                 badRequest("disabled invalid"))
                    ELSE IF alias_limit = Undefined /\ disabled = Undefined
                    THEN Respond("adminPatch", cookie, Null, badRequest("No fields"))
                    ELSE Begin(r, "adminPatch", "update", cookie, body, Null)
    /\ log' = NoLog /\ UNCHANGED <<store, now, env, outbox, draws, history>>

\* C28 (a deviation): a PATCH with disabled = 1 removes the row
AdminPatchUpdateDeletes(r) ==
    /\ At(r, "adminPatch", "update")
    /\ LET b == req[r].body
       IN  users' = IF Number(b.disabled) = Num(1) THEN {u \in users : u.id # b.target}
                    ELSE {IF u.id = b.target
                          THEN [u EXCEPT !.alias_limit = Number(b.alias_limit)]
                          ELSE u : u \in users}
    /\ Reply(r, Ok)
    /\ log' = NoLog /\ UNCHANGED <<sessions, reset_tokens, now, env, outbox, draws, history, aliases, emails>>

\* UPDATE users SET alias_limit = ?, disabled = ? WHERE id = ?
AdminPatchUpdate(r) ==
    /\ At(r, "adminPatch", "update")
    /\ LET b == req[r].body
       IN  users' = {IF u.id = b.target
                     THEN [u EXCEPT
                             !.alias_limit = IF b.alias_limit = Undefined THEN @
                                             ELSE Number(b.alias_limit),
                             !.disabled = IF b.disabled = Undefined THEN @
                                          ELSE Number(b.disabled).num]
                     ELSE u : u \in users}
    /\ Reply(r, Ok)
    /\ log' = NoLog /\ UNCHANGED <<sessions, reset_tokens, now, env, outbox, draws, history, aliases, emails>>

\* ----------------------------------------------------------------- aliases
\* The UNIQUE constraint of aliases: local_part is the key.
AliasUniqueViolation(row) == \E a \in aliases : a.local_part = row.local_part

\* c >= v for a count c and a number v that need not be whole
AtLeast(c, v) == IF isInteger(v) THEN c >= v.num ELSE c > v.num

\* POST /api/aliases: the auth gate, readJson and validLocalPart
FetchAliasCreate(r, cookie, body) ==
    /\ Free(r)
    /\ LET me == getUserBySession(cookie)
       IN  IF me = Null
           THEN Respond("aliasCreate", cookie, body, unauthorized("Unauthorized"))
           ELSE IF body = Null
           THEN Respond("aliasCreate", cookie, body, badRequest("JSON required"))
           ELSE LET local == toLowerCase(trim(body.local))
                IN  IF ~validLocalPart(local)
                    THEN Respond("aliasCreate", cookie, body,
                                 badRequest("Alias tidak valid (a-z0-9._+- max 64)"))
                    ELSE Begin(r, "aliasCreate", "count", cookie, body,
                               [local |-> local, me |-> me])
    /\ log' = NoLog /\ UNCHANGED <<store, now, env, outbox, draws, history>>

\* SELECT COUNT(*) as c FROM aliases WHERE user_id = ? AND disabled = 0, and
\* the quota check with the alias_limit the gate read
AliasCount(r) ==
    /\ At(r, "aliasCreate", "count")
    /\ LET l == req[r].l
           c == Cardinality({a \in aliases : a.user_id = l.me.id /\ a.disabled = 0})
       IN  IF AtLeast(c, l.me.alias_limit)
           THEN Reply(r, forbidden("Limit alias tercapai"))
           ELSE Goto(r, "insert", [local |-> l.local, me |-> l.me, t |-> now])
    /\ log' = NoLog /\ UNCHANGED <<store, now, env, outbox, draws, history>>

\* C32 (a deviation): INSERT OR REPLACE INTO aliases, the row of the local
\* part taken over
AliasInsertReplaces(r) ==
    /\ At(r, "aliasCreate", "insert")
    /\ LET l == req[r].l
           row == [local_part |-> l.local, user_id |-> l.me.id, disabled |-> 0,
                   created_at |-> l.t]
       IN  /\ aliases' = {a \in aliases : a.local_part # row.local_part} \cup {row}
           /\ Reply(r, Ok)
    /\ log' = NoLog
    /\ UNCHANGED <<users, sessions, reset_tokens, emails, now, env, outbox, draws, history>>

\* INSERT INTO aliases (local_part, user_id, disabled, created_at)
\* VALUES (?, ?, 0, ?); a UNIQUE error is answered 400
AliasInsert(r) ==
    /\ At(r, "aliasCreate", "insert")
    /\ LET l == req[r].l
           row == [local_part |-> l.local, user_id |-> l.me.id, disabled |-> 0,
                   created_at |-> l.t]
       IN  IF AliasUniqueViolation(row)
           THEN /\ aliases' = aliases
                /\ Reply(r, badRequest("Alias sudah dipakai"))
           ELSE /\ aliases' = aliases \cup {row}
                /\ Reply(r, Ok)
    /\ log' = NoLog
    /\ UNCHANGED <<users, sessions, reset_tokens, emails, now, env, outbox, draws, history>>

\* The INSERT throws another error than UNIQUE: 500 "DB error"
AliasInsertFails(r) ==
    /\ At(r, "aliasCreate", "insert")
    /\ Reply(r, json(500, "DB error"))
    /\ log' = NoLog /\ UNCHANGED <<store, now, env, outbox, draws, history>>

\* DELETE /api/aliases/:local (body.local being the decoded :local): the auth
\* gate and validLocalPart
FetchAliasDelete(r, cookie, body) ==
    /\ Free(r)
    /\ LET me == getUserBySession(cookie)
       IN  IF me = Null
           THEN Respond("aliasDelete", cookie, body, unauthorized("Unauthorized"))
           ELSE LET local == toLowerCase(body.local)
                IN  IF ~validLocalPart(local)
                    THEN Respond("aliasDelete", cookie, body, badRequest("Alias invalid"))
                    ELSE Begin(r, "aliasDelete", "own", cookie, body,
                               [local |-> local, me |-> me])
    /\ log' = NoLog /\ UNCHANGED <<store, now, env, outbox, draws, history>>

\* SELECT local_part FROM aliases WHERE local_part = ? AND user_id = ?
AliasOwn(r) ==
    /\ At(r, "aliasDelete", "own")
    /\ LET l == req[r].l
           own == {a \in aliases : a.local_part = l.local /\ a.user_id = l.me.id}
       IN  IF own = {} THEN Reply(r, notFound)
           ELSE Goto(r, "delete", l)
    /\ log' = NoLog /\ UNCHANGED <<store, now, env, outbox, draws, history>>

\* DELETE FROM aliases WHERE local_part = ? AND user_id = ?
AliasDelete(r) ==
    /\ At(r, "aliasDelete", "delete")
    /\ LET l == req[r].l
       IN  aliases' = {a \in aliases : ~(a.local_part = l.local /\ a.user_id = l.me.id)}
    /\ Reply(r, Ok)
    /\ log' = NoLog
    /\ UNCHANGED <<users, sessions, reset_tokens, emails, now, env, outbox, draws, history>>

\* ------------------------------------------------------------------ emails
\* GET /api/emails?alias=: the auth gate, the normalisation and validLocalPart
FetchEmailList(r, cookie, param) ==
    /\ Free(r)
    /\ LET me == getUserBySession(cookie)
       IN  IF me = Null
           THEN Respond("emailList", cookie, param, unauthorized("Unauthorized"))
           ELSE LET alias == toLowerCase(trim(param))
                IN  IF alias = <<>> \/ ~validLocalPart(alias)
                    THEN Respond("emailList", cookie, param, badRequest("alias required"))
                    ELSE Begin(r, "emailList", "own", cookie, param,
                               [alias |-> alias, me |-> me])
    /\ log' = NoLog /\ UNCHANGED <<store, now, env, outbox, draws, history>>

\* SELECT local_part FROM aliases
\* WHERE local_part = ? AND user_id = ? AND disabled = 0
EmailListOwn(r) ==
    /\ At(r, "emailList", "own")
    /\ LET l == req[r].l
           own == {a \in aliases : /\ a.local_part = l.alias /\ a.user_id = l.me.id
                                   /\ a.disabled = 0}
       IN  IF own = {} THEN Reply(r, forbidden("Alias bukan milikmu / disabled"))
           ELSE Goto(r, "select", l)
    /\ log' = NoLog /\ UNCHANGED <<store, now, env, outbox, draws, history>>

\* SELECT id, from_addr, to_addr, subject, date, created_at FROM emails
\* WHERE user_id = ? AND local_part = ?
EmailListSelect(r) ==
    /\ At(r, "emailList", "select")
    /\ LET l == req[r].l
       IN  Reply(r, jsonData({[id |-> e.id, from_addr |-> e.from_addr, to_addr |-> e.to_addr,
                               subject |-> e.subject, created_at |-> e.created_at] :
                                  e \in {x \in emails : /\ x.user_id = l.me.id
                                                        /\ x.local_part = l.alias}}))
    /\ log' = NoLog /\ UNCHANGED <<store, now, env, outbox, draws, history>>

\* GET /api/emails/:id: the auth gate
FetchEmailGet(r, cookie, id) ==
    /\ Free(r)
    /\ LET me == getUserBySession(cookie)
       IN  IF me = Null
           THEN Respond("emailGet", cookie, id, unauthorized("Unauthorized"))
           ELSE Begin(r, "emailGet", "select", cookie, id, [me |-> me])
    /\ log' = NoLog /\ UNCHANGED <<store, now, env, outbox, draws, history>>

\* C35 (a deviation): SELECT ... FROM emails WHERE id = ?, whoever owns it
EmailGetSelectAnyOwner(r) ==
    /\ At(r, "emailGet", "select")
    /\ LET rows == {e \in emails : e.id = req[r].body}
       IN  IF rows = {} THEN Reply(r, notFound)
           ELSE Reply(r, jsonData({[id |-> e.id, from_addr |-> e.from_addr,
                                    to_addr |-> e.to_addr, subject |-> e.subject,
                                    created_at |-> e.created_at] : e \in rows}))
    /\ log' = NoLog /\ UNCHANGED <<store, now, env, outbox, draws, history>>

\* SELECT id, from_addr, to_addr, subject, date, text, html, raw_key,
\* created_at FROM emails WHERE id = ? AND user_id = ?
EmailGetSelect(r) ==
    /\ At(r, "emailGet", "select")
    /\ LET rows == {e \in emails : e.id = req[r].body /\ e.user_id = req[r].l.me.id}
       IN  IF rows = {} THEN Reply(r, notFound)
           ELSE Reply(r, jsonData({[id |-> e.id, from_addr |-> e.from_addr,
                                    to_addr |-> e.to_addr, subject |-> e.subject,
                                    created_at |-> e.created_at] : e \in rows}))
    /\ log' = NoLog /\ UNCHANGED <<store, now, env, outbox, draws, history>>

\* DELETE /api/emails/:id: the auth gate
FetchEmailDelete(r, cookie, id) ==
    /\ Free(r)
    /\ LET me == getUserBySession(cookie)
       IN  IF me = Null
           THEN Respond("emailDelete", cookie, id, unauthorized("Unauthorized"))
           ELSE Begin(r, "emailDelete", "select", cookie, id, [me |-> me])
    /\ log' = NoLog /\ UNCHANGED <<store, now, env, outbox, draws, history>>

\* SELECT raw_key FROM emails WHERE id = ? AND user_id = ?
EmailDeleteSelect(r) ==
    /\ At(r, "emailDelete", "select")
    /\ LET rows == {e \in emails : e.id = req[r].body /\ e.user_id = req[r].l.me.id}
       IN  IF rows = {} THEN Reply(r, notFound)
           ELSE Goto(r, "delete", req[r].l)
    /\ log' = NoLog /\ UNCHANGED <<store, now, env, outbox, draws, history>>

\* DELETE FROM emails WHERE id = ? AND user_id = ?
EmailDelete(r) ==
    /\ At(r, "emailDelete", "delete")
    /\ emails' = {e \in emails : ~(e.id = req[r].body /\ e.user_id = req[r].l.me.id)}
    /\ Reply(r, Ok)
    /\ log' = NoLog
    /\ UNCHANGED <<users, sessions, reset_tokens, aliases, now, env, outbox, draws, history>>

\* ----------------------------------------------------------- inbound mail
\* message.setReject(reason); a message the handler returns from without it
\* is accepted.
setReject(reason) == [NoResponse EXCEPT !.error = reason]
Accepted == NoResponse

\* email() returns in its first step (it hands nothing to ctx.waitUntil) ...
EmailReturns(m, resp) ==
    /\ req' = req
    /\ sweeps' = sweeps
    /\ out' = Answer("email", NoCookie, m, resp)

\* ... or goes on to its INSERT.
EmailGoesOn(r, m, l) ==
    /\ req' = [req EXCEPT ![r] = [op |-> "email", pc |-> "insert", cookie |-> NoCookie,
                                  body |-> m, l |-> l]]
    /\ sweeps' = sweeps
    /\ out' = NoAnswer

\* C36 (a deviation): email() without its check of u.disabled
FetchEmailAnyOwner(r, m) ==
    /\ req[r].pc = "idle"
    /\ \A q \in Reqs : req[q].pc = "idle" => r <= q
    /\ LET domain == toLowerCase(env.MAIL_DOMAIN)
           to == split(toLowerCase(m.to))
           local == to[1]
           toDomain == IF Len(to) >= 2 THEN to[2] ELSE <<>>
           rows == {au \in aliases \X users :
                        au[2].id = au[1].user_id /\ au[1].local_part = local}
           maxStore == safeInt(env.MAX_STORE_BYTES, DefaultMaxStore)
       IN  IF local = <<>> \/ toDomain = <<>> \/ toDomain # domain
           THEN EmailReturns(m, setReject("Bad recipient")) /\ log' = NoLog
                    /\ nextMail' = nextMail
           ELSE IF rows = {} \/ (\E au \in rows : au[1].disabled # 0)
           THEN EmailReturns(m, setReject("Unknown recipient")) /\ log' = NoLog
                    /\ nextMail' = nextMail
           ELSE IF m.rawSize # 0 /\ m.rawSize > maxStore
           THEN EmailReturns(m, setReject("Message too large")) /\ log' = NoLog
                    /\ nextMail' = nextMail
           ELSE IF ~m.parses
           THEN EmailReturns(m, setReject("Temporary processing error"))
                    /\ log' = "email handler error" /\ nextMail' = nextMail
           ELSE /\ nextMail <= MaxMails
                /\ LET row == (CHOOSE au \in rows : TRUE)[1]
                   IN  EmailGoesOn(r, m, [id |-> nextMail, local_part |-> row.local_part,
                                          user_id |-> row.user_id, t |-> now])
                /\ log' = NoLog /\ nextMail' = nextMail + 1
    /\ UNCHANGED <<store, now, env, outbox, nextId, nextTok, nextSalt, history>>

\* email(message, env, ctx) up to its INSERT: the recipient check, SELECT ...
\* FROM aliases a JOIN users u ON u.id = a.user_id WHERE a.local_part = ?,
\* the size check, the parse (m.parses: whether PostalMime parses the raw
\* message or throws), crypto.randomUUID() and nowSec()
FetchEmail(r, m) ==
    /\ req[r].pc = "idle"
    /\ \A q \in Reqs : req[q].pc = "idle" => r <= q
    /\ LET domain == toLowerCase(env.MAIL_DOMAIN)
           to == split(toLowerCase(m.to))
           local == to[1]
           toDomain == IF Len(to) >= 2 THEN to[2] ELSE <<>>
           rows == {au \in aliases \X users :
                        au[2].id = au[1].user_id /\ au[1].local_part = local}
           maxStore == safeInt(env.MAX_STORE_BYTES, DefaultMaxStore)
       IN  IF local = <<>> \/ toDomain = <<>> \/ toDomain # domain
           THEN EmailReturns(m, setReject("Bad recipient")) /\ log' = NoLog
                    /\ nextMail' = nextMail
           ELSE IF rows = {} \/ (\E au \in rows : au[1].disabled # 0 \/ au[2].disabled # 0)
           THEN EmailReturns(m, setReject("Unknown recipient")) /\ log' = NoLog
                    /\ nextMail' = nextMail
           ELSE IF m.rawSize # 0 /\ m.rawSize > maxStore
           THEN EmailReturns(m, setReject("Message too large")) /\ log' = NoLog
                    /\ nextMail' = nextMail
           ELSE IF ~m.parses
           THEN EmailReturns(m, setReject("Temporary processing error"))
                    /\ log' = "email handler error" /\ nextMail' = nextMail
           ELSE /\ nextMail <= MaxMails
                /\ LET row == (CHOOSE au \in rows : TRUE)[1]
                   IN  EmailGoesOn(r, m, [id |-> nextMail, local_part |-> row.local_part,
                                          user_id |-> row.user_id, t |-> now])
                /\ log' = NoLog /\ nextMail' = nextMail + 1
    /\ UNCHANGED <<store, now, env, outbox, nextId, nextTok, nextSalt, history>>

\* INSERT INTO emails (id, local_part, user_id, from_addr, to_addr, subject,
\* ..., size, created_at)
EmailInsert(r) ==
    /\ At(r, "email", "insert")
    /\ LET l == req[r].l
           m == req[r].body
       IN  emails' = emails \cup {[id |-> l.id, local_part |-> l.local_part,
                                   user_id |-> l.user_id, from_addr |-> m.from,
                                   to_addr |-> m.to, subject |-> m.subject,
                                   size |-> m.rawSize, created_at |-> l.t]}
    /\ Reply(r, Accepted)
    /\ log' = NoLog
    /\ UNCHANGED <<users, sessions, reset_tokens, aliases, now, env, outbox, draws, history>>

\* The INSERT throws: the catch logs and rejects.
EmailInsertFails(r) ==
    /\ At(r, "email", "insert")
    /\ Reply(r, setReject("Temporary processing error"))
    /\ log' = "email handler error"
    /\ UNCHANGED <<store, now, env, outbox, draws, history>>

\* ----------------------------------------------------------- reset request
\* if (!user || user.disabled) return json({ ok: true })
NoResetFor(rows) == rows = {} \/ (\E u \in rows : u.disabled # 0)

\* POST /api/auth/reset/request: readJson, the email check,
\* SELECT id, disabled FROM users WHERE email = ?, then the token draw
FetchResetRequest(r, body) ==
    /\ Free(r)
    /\ IF body = Null
       THEN /\ Respond("resetRequest", NoCookie, body, badRequest("JSON required"))
            /\ nextTok' = nextTok
       ELSE LET email == toLowerCase(trim(body.email))
                rows == {u \in users : u.email = email}
            IN  IF ~ValidEmail(email)
                THEN /\ Respond("resetRequest", NoCookie, body,
                                badRequest("Email tidak valid"))
                     /\ nextTok' = nextTok
                ELSE IF NoResetFor(rows)
                THEN /\ Respond("resetRequest", NoCookie, body, Ok)
                     /\ nextTok' = nextTok
                ELSE /\ nextTok <= MaxTokens
                     /\ Begin(r, "resetRequest", "insert", NoCookie, body,
                              [email |-> email,
                               user_id |-> (CHOOSE u \in rows : TRUE).id,
                               token |-> base64Url(nextTok)])
                     /\ nextTok' = nextTok + 1
    /\ log' = NoLog /\ UNCHANGED <<store, now, env, outbox, nextId, nextSalt, history, nextMail>>

\* sendResetEmail(env, toEmail, token), run under ctx.waitUntil after the
\* response: m is the call, m.send how far it got.
Sending(m, outcome) ==
    /\ m \in outbox
    /\ m.send = "pending"
    /\ outbox' = (outbox \ {m}) \cup {[m EXCEPT !.send = outcome]}
    /\ out' = NoAnswer
    /\ UNCHANGED <<store, now, env, req, sweeps, draws, history>>

\* !env.RESEND_API_KEY
NoApiKey(e) == e.RESEND_API_KEY \in {Undefined, EmptyText}

\* if (!env.RESEND_API_KEY) return;
sendResetEmailSkipped(m) ==
    /\ NoApiKey(env)
    /\ Sending(m, "skipped")
    /\ log' = NoLog

\* fetch("https://api.resend.com/emails", ...) answers and r.ok
sendResetEmailSent(m) ==
    /\ ~NoApiKey(env)
    /\ Sending(m, "sent")
    /\ log' = NoLog

\* if (!r.ok) console.log("Resend failed:", ...)
sendResetEmailFails(m) ==
    /\ ~NoApiKey(env)
    /\ Sending(m, "failed")
    /\ log' = "Resend failed"

\* fetch() rejects: the promise handed to ctx.waitUntil rejects
sendResetEmailThrows(m) ==
    /\ ~NoApiKey(env)
    /\ Sending(m, "threw")
    /\ log' = NoLog

\* C25 (a deviation): await sendResetEmail(...) in the handler, whose throw
\* reaches the catch of fetch()
ResetRequestInsertAwaitsSend(r) ==
    /\ At(r, "resetRequest", "insert")
    /\ LET l == req[r].l
           t == now
           ttl == safeInt(env.RESET_TTL_SECONDS, DefaultResetTtl)
       IN  /\ reset_tokens' = reset_tokens \cup
                  {[token_hash |-> sha256Base64Url(l.token), user_id |-> l.user_id,
                    expires_at |-> t + ttl, created_at |-> t]}
           /\ outbox' = outbox \cup
                  {[to |-> l.email, token |-> l.token,
                    send |-> IF NoApiKey(env) THEN "skipped" ELSE "threw"]}
    /\ Reply(r, IF NoApiKey(env) THEN Ok ELSE json(500, "fetch failed"))
    /\ log' = NoLog /\ UNCHANGED <<users, sessions, now, env, draws, history, aliases, emails>>

\* C19 (a deviation): the INSERT binds the raw token in place of tokenHash
ResetRequestInsertRaw(r) ==
    /\ At(r, "resetRequest", "insert")
    /\ LET l == req[r].l
           t == now
           ttl == safeInt(env.RESET_TTL_SECONDS, DefaultResetTtl)
       IN  /\ reset_tokens' = reset_tokens \cup
                  {[token_hash |-> l.token, user_id |-> l.user_id,
                    expires_at |-> t + ttl, created_at |-> t]}
           /\ outbox' = outbox \cup {[to |-> l.email, token |-> l.token, send |-> "pending"]}
    /\ Reply(r, Ok)
    /\ log' = NoLog /\ UNCHANGED <<users, sessions, now, env, draws, history, aliases, emails>>

\* INSERT INTO reset_tokens (...), ctx.waitUntil(sendResetEmail(...)), the 200
ResetRequestInsert(r) ==
    /\ At(r, "resetRequest", "insert")
    /\ LET l == req[r].l
           t == now
           ttl == safeInt(env.RESET_TTL_SECONDS, DefaultResetTtl)
       IN  /\ reset_tokens' = reset_tokens \cup
                  {[token_hash |-> sha256Base64Url(l.token), user_id |-> l.user_id,
                    expires_at |-> t + ttl, created_at |-> t]}
           /\ outbox' = outbox \cup {[to |-> l.email, token |-> l.token, send |-> "pending"]}
    /\ Reply(r, Ok)
    /\ log' = NoLog /\ UNCHANGED <<users, sessions, now, env, draws, history, aliases, emails>>

\* ----------------------------------------------------------- reset confirm
\* if (!rt || rt.expires_at <= nowSec())
ResetTokenUsable(rows) == rows # {} /\ ~(\E rt \in rows : rt.expires_at <= now)

\* POST /api/auth/reset/confirm: readJson, the shape checks (body.token is the
\* raw token text, NoCookie standing for a missing or empty one),
\* SELECT user_id, expires_at FROM reset_tokens WHERE token_hash = ?, the
\* expiry check, the salt draw and the hash
FetchResetConfirm(r, body) ==
    /\ Free(r)
    /\ IF body = Null
       THEN /\ Respond("resetConfirm", NoCookie, body, badRequest("JSON required"))
            /\ nextSalt' = nextSalt
       ELSE IF body.token = NoCookie
       THEN /\ Respond("resetConfirm", NoCookie, body, badRequest("Token wajib"))
            /\ nextSalt' = nextSalt
       ELSE IF Len(body.newPw) < MinPwLen
       THEN /\ Respond("resetConfirm", NoCookie, body,
                       badRequest("Password minimal 8 karakter"))
            /\ nextSalt' = nextSalt
       ELSE LET tokenHash == sha256Base64Url(body.token)
                rows == {rt \in reset_tokens : rt.token_hash = tokenHash}
            IN  IF ~ResetTokenUsable(rows)
                THEN /\ Respond("resetConfirm", NoCookie, body,
                                badRequest("Token invalid/expired"))
                     /\ nextSalt' = nextSalt
                ELSE /\ nextSalt <= MaxSalts
                     /\ LET rt == CHOOSE x \in rows : TRUE
                            iters == pbkdf2Iters(env)
                            salt == getRandomValues16(nextSalt)
                        IN  Begin(r, "resetConfirm", "update", NoCookie, body,
                                  [user_id |-> rt.user_id, tokenHash |-> tokenHash,
                                   pass_salt |-> base64Url(salt),
                                   pass_hash |-> pbkdf2HashBase64Url(body.newPw, salt, iters),
                                   iters |-> iters])
                     /\ nextSalt' = nextSalt + 1
    /\ log' = NoLog /\ UNCHANGED <<store, now, env, outbox, nextId, nextTok, history, nextMail>>

\* C20 (a deviation): UPDATE users SET pass_hash=?, pass_iters=? WHERE id=?,
\* the new salt left out
ResetConfirmUpdateKeepsSalt(r) ==
    /\ At(r, "resetConfirm", "update")
    /\ LET l == req[r].l
       IN  users' = {IF u.id = l.user_id
                     THEN [u EXCEPT !.pass_hash = l.pass_hash,
                                    !.pass_iters = IF usersHasPassIters(env)
                                                   THEN l.iters ELSE @]
                     ELSE u : u \in users}
    /\ pwSetBy' = pwSetBy \cup {[token |-> req[r].body.token, by |-> req[r].l.pass_salt]}
    /\ Goto(r, "delete", req[r].l)
    /\ log' = NoLog /\ UNCHANGED <<sessions, reset_tokens, now, env, outbox, draws, live, confirmed, aliases, emails>>

\* C38 (a deviation): UPDATE users SET pass_salt=?, pass_hash=?, pass_iters=?,
\* disabled=0 WHERE id=?
ResetConfirmUpdateEnables(r) ==
    /\ At(r, "resetConfirm", "update")
    /\ LET l == req[r].l
       IN  users' = {IF u.id = l.user_id
                     THEN [u EXCEPT !.pass_salt = l.pass_salt,
                                    !.pass_hash = l.pass_hash,
                                    !.pass_iters = IF usersHasPassIters(env)
                                                   THEN l.iters ELSE @,
                                    !.disabled = 0]
                     ELSE u : u \in users}
    /\ pwSetBy' = pwSetBy \cup {[token |-> req[r].body.token, by |-> req[r].l.pass_salt]}
    /\ Goto(r, "delete", req[r].l)
    /\ log' = NoLog /\ UNCHANGED <<sessions, reset_tokens, now, env, outbox, draws, live, confirmed, aliases, emails>>

\* UPDATE users SET pass_salt=?, pass_hash=?, pass_iters=? WHERE id=?
ResetConfirmUpdate(r) ==
    /\ At(r, "resetConfirm", "update")
    /\ LET l == req[r].l
       IN  users' = {IF u.id = l.user_id
                     THEN [u EXCEPT !.pass_salt = l.pass_salt,
                                    !.pass_hash = l.pass_hash,
                                    !.pass_iters = IF usersHasPassIters(env)
                                                   THEN l.iters ELSE @]
                     ELSE u : u \in users}
    /\ pwSetBy' = pwSetBy \cup {[token |-> req[r].body.token, by |-> req[r].l.pass_salt]}
    /\ Goto(r, "delete", req[r].l)
    /\ log' = NoLog /\ UNCHANGED <<sessions, reset_tokens, now, env, outbox, draws, live, confirmed, aliases, emails>>

\* C5 (a deviation): reset/confirm without its DELETE FROM reset_tokens
ResetConfirmNoDelete(r) ==
    /\ At(r, "resetConfirm", "delete")
    /\ reset_tokens' = reset_tokens
    /\ confirmed' = confirmed \cup {[token |-> req[r].body.token, by |-> req[r].l.pass_salt]}
    /\ Reply(r, Ok)
    /\ log' = NoLog /\ UNCHANGED <<users, sessions, now, env, outbox, draws, live, pwSetBy, aliases, emails>>

\* C37 (a deviation): DELETE FROM reset_tokens WHERE user_id=?
ResetConfirmDeleteByUser(r) ==
    /\ At(r, "resetConfirm", "delete")
    /\ reset_tokens' = {rt \in reset_tokens : rt.user_id # req[r].l.user_id}
    /\ confirmed' = confirmed \cup {[token |-> req[r].body.token, by |-> req[r].l.pass_salt]}
    /\ Reply(r, Ok)
    /\ log' = NoLog /\ UNCHANGED <<users, sessions, now, env, outbox, draws, live, pwSetBy, aliases, emails>>

\* DELETE FROM reset_tokens WHERE token_hash=?, and the 200
ResetConfirmDelete(r) ==
    /\ At(r, "resetConfirm", "delete")
    /\ reset_tokens' = {rt \in reset_tokens : rt.token_hash # req[r].l.tokenHash}
    /\ confirmed' = confirmed \cup {[token |-> req[r].body.token, by |-> req[r].l.pass_salt]}
    /\ Reply(r, Ok)
    /\ log' = NoLog /\ UNCHANGED <<users, sessions, now, env, outbox, draws, live, pwSetBy, aliases, emails>>

\* The DELETE throws (a store error): the catch of fetch() answers 500 with
\* the error's message.
ResetConfirmDeleteFails(r) ==
    /\ At(r, "resetConfirm", "delete")
    /\ Reply(r, json(500, StoreErrorText))
    /\ log' = "api error" /\ UNCHANGED <<store, now, env, outbox, draws, history>>

\* ------------------------------------------------------------------ inputs
Alice == <<"a", "l", "i", "c", "e">>
Bob == <<"b", "o", "b">>
AliceMail == <<"a", "@", "b", ".", "i", "o">>
BobMail == <<"b", "@", "b", ".", "i", "o">>
NoMail == <<"c", "@", "b", ".", "i", "o">>
Pw1 == <<"p", "a", "s", "s", "w", "o", "r", "d">>
Pw2 == <<"l", "e", "t", "m", "e", "i", "n", "1">>
Pw3 == <<"h", "u", "n", "t", "e", "r", "2", "2">>
PwShort == <<"p", "w">>

\* The same identity as the browser sends it: padded and in upper case.
AliceBody == [username |-> <<" ", "A">> \o Tail(Alice), email |-> <<"A">> \o Tail(AliceMail),
              pw |-> Pw1]
BobBody == [username |-> Bob, email |-> BobMail, pw |-> Pw2]

Cookies == {NoCookie} \cup {base64Url(n) : n \in 1..MaxTokens}

\* The admin disables Alice (herself) or Bob, or enables Bob again.
DisablePatches ==
    {[target |-> id, alias_limit |-> Undefined, disabled |-> Num(1)] : id \in 1..MaxUsers}
        \cup {[target |-> MaxUsers, alias_limit |-> Undefined, disabled |-> Num(0)]}

\* ---------------------------------------------------------- specifications
\* The signup bodies: Alice, Bob, one that fails validation and one that
\* repeats Alice's username with another address.
ShortPwBody == [AliceBody EXCEPT !.pw = PwShort]
DupNameBody == [username |-> Alice, email |-> NoMail, pw |-> Pw2]
SignupBodies == {AliceBody, BobBody, ShortPwBody, DupNameBody}

\* Signup from the empty store.
NextSignup ==
    \/ \E r \in Reqs : \E body \in SignupBodies : FetchSignup(r, body)
    \/ \E r \in Reqs : SignupInsert(r)
    \/ \E r \in Reqs : SignupSession(r)
    \/ \E sw \in sweeps : cleanupSessions(sw)
    \/ \E sw \in sweeps : cleanupResetTokens(sw)
    \/ Tick

SpecSignup == Init /\ [][NextSignup]_vars

\* Signups one after another: a signup starts when no handler is in flight.
NextSignupSeq ==
    \/ /\ \A q \in Reqs : req[q].pc = "idle"
       /\ \E r \in Reqs : \E body \in SignupBodies : FetchSignup(r, body)
    \/ \E r \in Reqs : SignupInsert(r)
    \/ \E r \in Reqs : SignupSession(r)
    \/ \E sw \in sweeps : cleanupSessions(sw)
    \/ \E sw \in sweeps : cleanupResetTokens(sw)
    \/ Tick

SpecSignupSeq == Init /\ [][NextSignupSeq]_vars

\* The store after Alice and then Bob have signed up at time 0 and the sweeps
\* of both requests have settled: the rows FetchSignup, SignupInsert and
\* SignupSession write (SpecSignup reaches this state, see SeededReachable).
SeedUser(n, body, role, e) ==
    [id |-> n, username |-> toLowerCase(trim(body.username)),
     email |-> toLowerCase(trim(body.email)),
     pass_salt |-> base64Url(getRandomValues16(n)),
     pass_hash |-> pbkdf2HashBase64Url(body.pw, getRandomValues16(n), pbkdf2Iters(e)),
     pass_iters |-> IF usersHasPassIters(e) THEN pbkdf2Iters(e) ELSE 0,
     role |-> role, alias_limit |-> safeNumber(e.DEFAULT_ALIAS_LIMIT, Num(DefaultAliasLimit)),
     disabled |-> 0, created_at |-> 0]

SeedSession(n, e) ==
    [token_hash |-> sha256Base64Url(base64Url(n)), user_id |-> n,
     expires_at |-> safeInt(e.SESSION_TTL_SECONDS, DefaultSessionTtl), created_at |-> 0]

Seeded(e) ==
    /\ users = {SeedUser(1, AliceBody, "admin", e), SeedUser(2, BobBody, "user", e)}
    /\ sessions = {SeedSession(1, e), SeedSession(2, e)}
    /\ reset_tokens = {}
    /\ aliases = {}
    /\ emails = {}
    /\ now = 0
    /\ req = [r \in Reqs |-> IdleSlot]
    /\ out = NoAnswer
    /\ sweeps = {}
    /\ outbox = {}
    /\ log = NoLog
    /\ nextId = 3
    /\ nextTok = 3
    /\ nextSalt = 3
    /\ nextMail = 1
    /\ live = {[token |-> base64Url(n), user_id |-> n, t |-> 0,
                ttl |-> safeInt(e.SESSION_TTL_SECONDS, DefaultSessionTtl),
                raced |-> FALSE] : n \in {1, 2}}
    /\ confirmed = {}
    /\ pwSetBy = {}
    /\ env = e

InitSeeded == Seeded(DefaultEnv)

\* Sessions: login, logout, the auth gate, admin PATCH, sweep, clock.
NextSession ==
    \/ \E r \in Reqs : \E body \in {[id |-> Alice, pw |-> Pw1], [id |-> BobMail, pw |-> Pw2],
                                   [id |-> BobMail, pw |-> Pw1]} :
           FetchLogin(r, body)
    \/ \E r \in Reqs : LoginSession(r)
    \/ \E cookie \in Cookies : FetchLogout(cookie)
    \/ \E cookie \in Cookies : FetchMe(cookie)
    \/ \E r \in Reqs : \E cookie \in Cookies : \E body \in DisablePatches :
           FetchAdminPatch(r, cookie, body)
    \/ \E r \in Reqs : AdminPatchUpdate(r)
    \/ \E sw \in sweeps : cleanupSessions(sw)
    \/ \E sw \in sweeps : cleanupResetTokens(sw)
    \/ Tick

SpecSession == InitSeeded /\ [][NextSession]_vars

\* SpecSignup reaches the seeded store.
SeededReachable == ~Seeded(DefaultEnv)

\* Session lifetimes: the same store under every env.SESSION_TTL_SECONDS from
\* -1 up; login, the auth gate, sweep, clock.
TtlValues == (0 - 1)..SessionTtl

InitTtl ==
    \E ttl \in TtlValues : Seeded([DefaultEnv EXCEPT !.SESSION_TTL_SECONDS = Num(ttl)])

NextTtl ==
    \/ \E r \in Reqs : \E body \in {[id |-> Alice, pw |-> Pw1], [id |-> BobMail, pw |-> Pw2]} :
           FetchLogin(r, body)
    \/ \E r \in Reqs : LoginSession(r)
    \/ \E cookie \in Cookies : FetchMe(cookie)
    \/ \E sw \in sweeps : cleanupSessions(sw)
    \/ \E sw \in sweeps : cleanupResetTokens(sw)
    \/ Tick

SpecTtl == InitTtl /\ [][NextTtl]_vars

\* One user, many sessions: Alice signs up and then logs in again and again,
\* by username and by email, the logins overlapping; the auth gate, sweep,
\* clock.
AliceLogins == {[id |-> Alice, pw |-> Pw1], [id |-> AliceMail, pw |-> Pw1]}

NextLogins ==
    \/ \E r \in Reqs : FetchSignup(r, AliceBody)
    \/ \E r \in Reqs : SignupInsert(r)
    \/ \E r \in Reqs : SignupSession(r)
    \/ \E r \in Reqs : \E body \in AliceLogins : FetchLogin(r, body)
    \/ \E r \in Reqs : LoginSession(r)
    \/ \E cookie \in Cookies : FetchMe(cookie)
    \/ \E sw \in sweeps : cleanupSessions(sw)
    \/ \E sw \in sweeps : cleanupResetTokens(sw)
    \/ Tick

SpecLogins == Init /\ [][NextLogins]_vars

\* Credentials: Bob signs up with one password, resets it to another, and
\* logs in by username and by email with either password or none, the
\* requests overlapping, all within one second of the clock; sweep.
BobLogins == {[id |-> id, pw |-> pw] : id \in {Bob, <<"B">> \o Tail(BobMail)},
                                      pw \in {Pw1, Pw2, <<>>}}

BobConfirms == {[token |-> base64Url(n), newPw |-> Pw1] : n \in 2..MaxTokens}

NextCredentials ==
    \/ \E r \in Reqs : FetchSignup(r, BobBody)
    \/ \E r \in Reqs : SignupInsert(r)
    \/ \E r \in Reqs : SignupSession(r)
    \/ \E r \in Reqs : \E body \in BobLogins : FetchLogin(r, body)
    \/ \E r \in Reqs : LoginSession(r)
    \/ \E r \in Reqs : FetchResetRequest(r, [email |-> BobMail])
    \/ \E r \in Reqs : ResetRequestInsert(r)
    \/ \E r \in Reqs : \E body \in BobConfirms : FetchResetConfirm(r, body)
    \/ \E r \in Reqs : ResetConfirmUpdate(r)
    \/ \E r \in Reqs : ResetConfirmDelete(r)
    \/ \E sw \in sweeps : cleanupSessions(sw)
    \/ \E sw \in sweeps : cleanupResetTokens(sw)

SpecCredentials == Init /\ [][NextCredentials]_vars

\* Password reset: request, confirm (with a DELETE that may fail), the admin
\* disabling Bob, sweep, clock.
ResetRequests ==
    {[email |-> <<" ", "A">> \o Tail(AliceMail)], [email |-> BobMail], [email |-> NoMail],
     [email |-> Bob]}

ResetConfirms ==
    {[token |-> base64Url(MaxTokens), newPw |-> Pw2],
     [token |-> base64Url(1), newPw |-> Pw2]}

DisableBob == [target |-> 2, alias_limit |-> Undefined, disabled |-> Num(1)]

NextReset ==
    \/ \E r \in Reqs : \E body \in ResetRequests : FetchResetRequest(r, body)
    \/ \E r \in Reqs : ResetRequestInsert(r)
    \/ \E r \in Reqs : \E body \in ResetConfirms : FetchResetConfirm(r, body)
    \/ \E r \in Reqs : ResetConfirmUpdate(r)
    \/ \E r \in Reqs : ResetConfirmDelete(r)
    \/ \E r \in Reqs : ResetConfirmDeleteFails(r)
    \/ \E r \in Reqs : FetchAdminPatch(r, base64Url(1), DisableBob)
    \/ \E r \in Reqs : AdminPatchUpdate(r)
    \/ \E sw \in sweeps : cleanupSessions(sw)
    \/ \E sw \in sweeps : cleanupResetTokens(sw)
    \/ Tick

SpecReset == InitSeeded /\ [][NextReset]_vars

\* Failed logins: an unknown identifier, a wrong password, and Bob's right
\* and wrong password while the admin disables him; sweep, clock.
FailingLogins ==
    {[id |-> NoMail, pw |-> Pw1], [id |-> Alice, pw |-> Pw2],
     [id |-> Bob, pw |-> Pw2], [id |-> BobMail, pw |-> Pw1]}

NextAuthFail ==
    \/ \E r \in Reqs : \E body \in FailingLogins : FetchLogin(r, body)
    \/ \E r \in Reqs : LoginSession(r)
    \/ \E r \in Reqs : FetchAdminPatch(r, base64Url(1), DisableBob)
    \/ \E r \in Reqs : AdminPatchUpdate(r)
    \/ \E sw \in sweeps : cleanupSessions(sw)
    \/ \E sw \in sweeps : cleanupResetTokens(sw)
    \/ Tick

SpecAuthFail == InitSeeded /\ [][NextAuthFail]_vars

\* Iterations: the store under every configured env.PBKDF2_ITERS; signup in
\* the capped and in the uncapped variant, reset request and confirm, sweep.
IterValues ==
    {Undefined, NotANumber, EmptyText}
        \cup {Num(n) : n \in {0 - 1, 0, PBKDF2_MIN_ITERS - 1, PBKDF2_MIN_ITERS, 50000,
                              PBKDF2_MAX_ITERS, PBKDF2_MAX_ITERS + 1, UncappedIters}}

InitIters ==
    \E v \in IterValues : InitStore /\ env = [DefaultEnv EXCEPT !.PBKDF2_ITERS = v]

NextIters ==
    \/ \E r \in Reqs : FetchSignup(r, BobBody)
    \/ \E r \in Reqs : FetchSignupUncapped(r, AliceBody)
    \/ \E r \in Reqs : SignupInsert(r)
    \/ \E r \in Reqs : SignupSession(r)
    \/ \E r \in Reqs : FetchResetRequest(r, [email |-> BobMail])
    \/ \E r \in Reqs : ResetRequestInsert(r)
    \/ \E r \in Reqs : \E body \in BobConfirms : FetchResetConfirm(r, body)
    \/ \E r \in Reqs : ResetConfirmUpdate(r)
    \/ \E r \in Reqs : ResetConfirmDelete(r)
    \/ \E sw \in sweeps : cleanupSessions(sw)
    \/ \E sw \in sweeps : cleanupResetTokens(sw)

SpecIters == InitIters /\ [][NextIters]_vars

\* A legacy credential: the seeded store with Bob's row as a deployment wrote
\* it that derived with 310000 iterations and recorded the count; logins by
\* Bob and by Alice, sweep, clock.
LegacyBob(u) ==
    [u EXCEPT !.pass_iters = UncappedIters,
              !.pass_hash = pbkdf2HashBase64Url(BobBody.pw, base64UrlToBytes(u.pass_salt),
                                                UncappedIters)]

InitLegacy ==
    /\ users = {IF u.id = 2 THEN LegacyBob(u) ELSE u :
                    u \in {SeedUser(1, AliceBody, "admin", DefaultEnv),
                           SeedUser(2, BobBody, "user", DefaultEnv)}}
    /\ sessions = {}
    /\ reset_tokens = {}
    /\ aliases = {}
    /\ emails = {}
    /\ now = 0
    /\ req = [r \in Reqs |-> IdleSlot]
    /\ out = NoAnswer
    /\ sweeps = {}
    /\ outbox = {}
    /\ log = NoLog
    /\ nextId = 3
    /\ nextTok = 1
    /\ nextSalt = 3
    /\ nextMail = 1
    /\ live = {}
    /\ confirmed = {}
    /\ pwSetBy = {}
    /\ env = DefaultEnv

LegacyLogins ==
    {[id |-> Bob, pw |-> Pw2], [id |-> BobMail, pw |-> Pw1], [id |-> Bob, pw |-> <<>>],
     [id |-> Alice, pw |-> Pw1]}

NextLegacy ==
    \/ \E r \in Reqs : \E body \in LegacyLogins : FetchLogin(r, body)
    \/ \E r \in Reqs : LoginSession(r)
    \/ \E cookie \in Cookies : FetchMe(cookie)
    \/ \E sw \in sweeps : cleanupSessions(sw)
    \/ \E sw \in sweeps : cleanupResetTokens(sw)
    \/ Tick

SpecLegacy == InitLegacy /\ [][NextLegacy]_vars

\* Password changes: Bob signs up, asks for reset tokens and confirms each
\* with its own new password, and logs in with the old and the new ones, the
\* requests overlapping, all within one second of the clock; sweep.
NewPwConfirms ==
    {[token |-> base64Url(2), newPw |-> Pw1], [token |-> base64Url(MaxTokens), newPw |-> Pw3]}

NewPwLogins == {[id |-> Bob, pw |-> pw] : pw \in {Pw1, Pw2, Pw3}}

NextNewPw ==
    \/ \E r \in Reqs : FetchSignup(r, BobBody)
    \/ \E r \in Reqs : SignupInsert(r)
    \/ \E r \in Reqs : SignupSession(r)
    \/ \E r \in Reqs : \E body \in NewPwLogins : FetchLogin(r, body)
    \/ \E r \in Reqs : LoginSession(r)
    \/ \E r \in Reqs : FetchResetRequest(r, [email |-> BobMail])
    \/ \E r \in Reqs : ResetRequestInsert(r)
    \/ \E r \in Reqs : \E body \in NewPwConfirms : FetchResetConfirm(r, body)
    \/ \E r \in Reqs : ResetConfirmUpdate(r)
    \/ \E r \in Reqs : ResetConfirmDelete(r)
    \/ \E sw \in sweeps : cleanupSessions(sw)
    \/ \E sw \in sweeps : cleanupResetTokens(sw)

SpecNewPw == Init /\ [][NextNewPw]_vars

\* The reset mail: the seeded store with and without an API key; reset
\* requests, the send in each of its outcomes, confirm, sweep, clock.
ApiKey == [text |-> "re_key"]

InitMail ==
    \E key \in {Undefined, EmptyText, ApiKey} :
        Seeded([DefaultEnv EXCEPT !.RESEND_API_KEY = key])

NextMail ==
    \/ \E r \in Reqs : \E body \in {[email |-> AliceMail], [email |-> NoMail]} :
           FetchResetRequest(r, body)
    \/ \E r \in Reqs : ResetRequestInsert(r)
    \/ \E m \in outbox : sendResetEmailSkipped(m)
    \/ \E m \in outbox : sendResetEmailSent(m)
    \/ \E m \in outbox : sendResetEmailFails(m)
    \/ \E m \in outbox : sendResetEmailThrows(m)
    \/ \E r \in Reqs : FetchResetConfirm(r, [token |-> base64Url(MaxTokens), newPw |-> Pw2])
    \/ \E r \in Reqs : ResetConfirmUpdate(r)
    \/ \E r \in Reqs : ResetConfirmDelete(r)
    \/ \E sw \in sweeps : cleanupSessions(sw)
    \/ \E sw \in sweeps : cleanupResetTokens(sw)
    \/ Tick

SpecMail == InitMail /\ [][NextMail]_vars

\* Store errors: signup, login and reset with the INSERT of signup, the
\* INSERT of createSession at login and the DELETE of confirm each able to
\* throw, the requests overlapping, all within one second of the clock; sweep.
NextStoreFail ==
    \/ \E r \in Reqs : FetchSignup(r, BobBody)
    \/ \E r \in Reqs : SignupInsert(r)
    \/ \E r \in Reqs : SignupInsertFails(r)
    \/ \E r \in Reqs : SignupSession(r)
    \/ \E r \in Reqs : FetchLogin(r, [id |-> Bob, pw |-> Pw2])
    \/ \E r \in Reqs : LoginSession(r)
    \/ \E r \in Reqs : LoginSessionFails(r)
    \/ \E r \in Reqs : FetchResetRequest(r, [email |-> BobMail])
    \/ \E r \in Reqs : ResetRequestInsert(r)
    \/ \E r \in Reqs : \E body \in BobConfirms : FetchResetConfirm(r, body)
    \/ \E r \in Reqs : ResetConfirmUpdate(r)
    \/ \E r \in Reqs : ResetConfirmDelete(r)
    \/ \E r \in Reqs : ResetConfirmDeleteFails(r)
    \/ \E sw \in sweeps : cleanupSessions(sw)
    \/ \E sw \in sweeps : cleanupResetTokens(sw)

SpecStoreFail == Init /\ [][NextStoreFail]_vars

\* Every writer of users together: two signups, login, reset request and
\* confirm (with a DELETE that may fail), admin PATCH of alias_limit and of
\* disabled, sweep.
FramePatches ==
    {[target |-> 1, alias_limit |-> Num(5), disabled |-> Undefined],
     [target |-> 2, alias_limit |-> Undefined, disabled |-> Num(1)]}

NextFrame ==
    \/ \E r \in Reqs : \E body \in {AliceBody, BobBody} : FetchSignup(r, body)
    \/ \E r \in Reqs : SignupInsert(r)
    \/ \E r \in Reqs : SignupSession(r)
    \/ \E r \in Reqs : FetchLogin(r, [id |-> Bob, pw |-> Pw2])
    \/ \E r \in Reqs : LoginSession(r)
    \/ \E r \in Reqs : FetchResetRequest(r, [email |-> BobMail])
    \/ \E r \in Reqs : ResetRequestInsert(r)
    \/ \E r \in Reqs : \E n \in 1..MaxTokens :
           FetchResetConfirm(r, [token |-> base64Url(n), newPw |-> Pw1])
    \/ \E r \in Reqs : ResetConfirmUpdate(r)
    \/ \E r \in Reqs : ResetConfirmDelete(r)
    \/ \E r \in Reqs : ResetConfirmDeleteFails(r)
    \/ \E r \in Reqs : \E body \in FramePatches : FetchAdminPatch(r, base64Url(1), body)
    \/ \E r \in Reqs : AdminPatchUpdate(r)
    \/ \E sw \in sweeps : cleanupSessions(sw)
    \/ \E sw \in sweeps : cleanupResetTokens(sw)

SpecFrame == Init /\ [][NextFrame]_vars

\* Signup with bodies that fail each check: a username too short once
\* trimmed, one with a character outside the class, one of 25 characters, a
\* missing one; an email without a dot and one without an @; a password of
\* 7 characters; and Bob with his address in upper case.
Pw7 == SubSeq(Pw1, 1, MinPwLen - 1)
LongName == [i \in 1..(UsernameMaxLen + 1) |-> "a"]
UpperMailBody == [BobBody EXCEPT !.email = <<"B">> \o Tail(BobMail)]
BadBodies ==
    {[BobBody EXCEPT !.username = <<" ", "a", "b", " ">>],
     [BobBody EXCEPT !.username = <<"b", "@", "o", "b">>],
     [BobBody EXCEPT !.username = LongName],
     [BobBody EXCEPT !.username = <<>>],
     [BobBody EXCEPT !.email = <<"b", "@", "b">>],
     [BobBody EXCEPT !.email = Bob],
     [BobBody EXCEPT !.pw = Pw7]}

ValidationBodies == {AliceBody, UpperMailBody, ShortPwBody} \cup BadBodies

NextValidation ==
    \/ \E r \in Reqs : \E body \in ValidationBodies : FetchSignup(r, body)
    \/ \E r \in Reqs : SignupInsert(r)
    \/ \E r \in Reqs : SignupSession(r)
    \/ \E sw \in sweeps : cleanupSessions(sw)
    \/ \E sw \in sweeps : cleanupResetTokens(sw)

SpecValidation == Init /\ [][NextValidation]_vars

\* Admin PATCH with values at and beyond each check: alias_limit -1, 0, 2.5,
\* 1000, 1001, a text and the empty text; disabled 0, 1, 2 and 0.5; no field.
LimitPatches ==
    {[target |-> 2, alias_limit |-> a, disabled |-> Undefined] :
         a \in {Num(0 - 1), Num(0), Half(2), Num(MaxAliasLimit), Num(MaxAliasLimit + 1),
                NotANumber, EmptyText, Undefined}}
        \cup {[target |-> 2, alias_limit |-> Undefined, disabled |-> d] :
                  d \in {Num(0), Num(1), Num(2), Half(0)}}

NextLimits ==
    \/ \E r \in Reqs : \E cookie \in {base64Url(1), base64Url(2)} :
           \E body \in LimitPatches : FetchAdminPatch(r, cookie, body)
    \/ \E r \in Reqs : AdminPatchUpdate(r)
    \/ \E cookie \in {base64Url(1), base64Url(2)} : FetchMe(cookie)
    \/ \E sw \in sweeps : cleanupSessions(sw)
    \/ \E sw \in sweeps : cleanupResetTokens(sw)

SpecLimits == InitSeeded /\ [][NextLimits]_vars

\* Aliases: Alice and Bob, each with a quota of one, create and delete the
\* local parts a and b (sent padded and in upper case too) and try an
\* invalid one.
AliasEnv == [DefaultEnv EXCEPT !.DEFAULT_ALIAS_LIMIT = Num(1)]
InitAliases == Seeded(AliasEnv)

CreateBodies ==
    {[local |-> <<"a">>], [local |-> <<" ", "A">>], [local |-> <<"b">>], [local |-> <<"_">>]}
DeleteBodies == {[local |-> <<"A">>], [local |-> <<"b">>], [local |-> <<"_">>]}
Members == {base64Url(1), base64Url(2)}

NextAliases ==
    \/ \E r \in Reqs : \E cookie \in Members : \E body \in CreateBodies :
           FetchAliasCreate(r, cookie, body)
    \/ \E r \in Reqs : AliasCount(r)
    \/ \E r \in Reqs : AliasInsert(r)
    \/ \E r \in Reqs : \E cookie \in Members : \E body \in DeleteBodies :
           FetchAliasDelete(r, cookie, body)
    \/ \E r \in Reqs : AliasOwn(r)
    \/ \E r \in Reqs : AliasDelete(r)
    \/ \E sw \in sweeps : cleanupSessions(sw)
    \/ \E sw \in sweeps : cleanupResetTokens(sw)

SpecAliases == InitAliases /\ [][NextAliases]_vars

\* The admin endpoints called by Alice (admin) and by Bob: the list, and
\* PATCH that disables Alice herself or Bob, enables Bob or sets his quota.
AdminPatches ==
    DisablePatches \cup {[target |-> 2, alias_limit |-> Num(1), disabled |-> Undefined]}

NextAdmin ==
    \/ \E r \in Reqs : \E cookie \in Cookies : FetchAdminList(r, cookie)
    \/ \E r \in Reqs : AdminListSelect(r)
    \/ \E r \in Reqs : \E cookie \in Cookies : \E body \in AdminPatches :
           FetchAdminPatch(r, cookie, body)
    \/ \E r \in Reqs : AdminPatchUpdate(r)
    \/ \E sw \in sweeps : cleanupSessions(sw)
    \/ \E sw \in sweeps : cleanupResetTokens(sw)

SpecAdmin == InitSeeded /\ [][NextAdmin]_vars

\* The mailbox: Alice and Bob create and delete the local part a, mail for
\* a@b.io arrives, and both list by alias, read and delete by id. The store
\* starts with an alias of Bob that is disabled (aliases.disabled is written
\* by no route of the worker: the operator sets it in the database).
LocalC == <<"c">>
DisabledAlias == [local_part |-> LocalC, user_id |-> 2, disabled |-> 1, created_at |-> 0]
MailToA ==
    [to |-> <<"A", "@", "b", ".", "i", "o">>, from |-> NoMail, subject |-> "hello",
     rawSize |-> 1, parses |-> TRUE]

InitMailbox ==
    /\ users = {SeedUser(1, AliceBody, "admin", DefaultEnv), SeedUser(2, BobBody, "user", DefaultEnv)}
    /\ sessions = {SeedSession(1, DefaultEnv), SeedSession(2, DefaultEnv)}
    /\ reset_tokens = {}
    /\ aliases = {DisabledAlias}
    /\ emails = {}
    /\ now = 0
    /\ req = [r \in Reqs |-> IdleSlot]
    /\ out = NoAnswer
    /\ sweeps = {}
    /\ outbox = {}
    /\ log = NoLog
    /\ nextId = 3
    /\ nextTok = 3
    /\ nextSalt = 3
    /\ nextMail = 1
    /\ live = {[token |-> base64Url(n), user_id |-> n, t |-> 0,
                ttl |-> safeInt(DefaultEnv.SESSION_TTL_SECONDS, DefaultSessionTtl),
                raced |-> FALSE] : n \in {1, 2}}
    /\ confirmed = {}
    /\ pwSetBy = {}
    /\ env = DefaultEnv

NextMailbox ==
    \/ \E r \in Reqs : \E cookie \in Members : FetchAliasCreate(r, cookie, [local |-> <<"a">>])
    \/ \E r \in Reqs : AliasCount(r)
    \/ \E r \in Reqs : AliasInsert(r)
    \/ \E r \in Reqs : \E cookie \in Members : FetchAliasDelete(r, cookie, [local |-> <<"a">>])
    \/ \E r \in Reqs : AliasOwn(r)
    \/ \E r \in Reqs : AliasDelete(r)
    \/ \E r \in Reqs : FetchEmail(r, MailToA)
    \/ \E r \in Reqs : EmailInsert(r)
    \/ \E r \in Reqs : \E cookie \in Members : \E param \in {<<"A">>, LocalC, <<>>} :
           FetchEmailList(r, cookie, param)
    \/ \E r \in Reqs : EmailListOwn(r)
    \/ \E r \in Reqs : EmailListSelect(r)
    \/ \E r \in Reqs : \E cookie \in Members : \E id \in 1..MaxMails :
           FetchEmailGet(r, cookie, id)
    \/ \E r \in Reqs : EmailGetSelect(r)
    \/ \E r \in Reqs : \E cookie \in Members : \E id \in 1..MaxMails :
           FetchEmailDelete(r, cookie, id)
    \/ \E r \in Reqs : EmailDeleteSelect(r)
    \/ \E r \in Reqs : EmailDelete(r)
    \/ \E sw \in sweeps : cleanupSessions(sw)
    \/ \E sw \in sweeps : cleanupResetTokens(sw)

SpecMailbox == InitMailbox /\ [][NextMailbox]_vars

\* Inbound mail: Alice owns a, Bob owns b and the disabled c; messages for
\* each of them (one in upper case), for an unknown local part, for another
\* domain and with malformed recipients, one over the size limit and one the
\* parser throws on; the INSERT may fail; meanwhile Alice deletes a and the
\* admin disables Bob. MAX_STORE_BYTES is unset or 1.
At_bio == <<"@", "b", ".", "i", "o">>
Letter(to, size, parses) ==
    [to |-> to, from |-> NoMail, subject |-> "hello", rawSize |-> size, parses |-> parses]
Letters ==
    {Letter(<<"a">> \o At_bio, 1, TRUE),
     Letter(<<"A", "@", "B", ".", "i", "o">>, 2, TRUE),
     Letter(<<"a">> \o At_bio, DefaultMaxStore + 1, TRUE),
     Letter(<<"a">> \o At_bio, 0, FALSE),
     Letter(<<"b">> \o At_bio, 1, TRUE),
     Letter(LocalC \o At_bio, 1, TRUE),
     Letter(<<"e">> \o At_bio, 1, TRUE),
     Letter(<<"a", "@", "c", ".", "i", "o">>, 1, TRUE),
     Letter(<<"a">>, 1, TRUE),
     Letter(At_bio, 1, TRUE),
     Letter(<<"a", "@">>, 1, TRUE)}

InitInbound ==
    \E max \in {Undefined, Num(1)} :
        /\ users = {SeedUser(1, AliceBody, "admin", DefaultEnv),
                    SeedUser(2, BobBody, "user", DefaultEnv)}
        /\ sessions = {SeedSession(1, DefaultEnv), SeedSession(2, DefaultEnv)}
        /\ reset_tokens = {}
        /\ aliases = {[local_part |-> <<"a">>, user_id |-> 1, disabled |-> 0, created_at |-> 0],
                      [local_part |-> <<"b">>, user_id |-> 2, disabled |-> 0, created_at |-> 0],
                      DisabledAlias}
        /\ emails = {}
        /\ now = 0
        /\ req = [r \in Reqs |-> IdleSlot]
        /\ out = NoAnswer
        /\ sweeps = {}
        /\ outbox = {}
        /\ log = NoLog
        /\ nextId = 3
        /\ nextTok = 3
        /\ nextSalt = 3
        /\ nextMail = 1
        /\ live = {[token |-> base64Url(n), user_id |-> n, t |-> 0,
                    ttl |-> safeInt(DefaultEnv.SESSION_TTL_SECONDS, DefaultSessionTtl),
                    raced |-> FALSE] : n \in {1, 2}}
        /\ confirmed = {}
        /\ pwSetBy = {}
        /\ env = [DefaultEnv EXCEPT !.MAX_STORE_BYTES = max]

NextInbound ==
    \/ \E r \in Reqs : \E m \in Letters : FetchEmail(r, m)
    \/ \E r \in Reqs : EmailInsert(r)
    \/ \E r \in Reqs : EmailInsertFails(r)
    \/ \E r \in Reqs : FetchAliasDelete(r, base64Url(1), [local |-> <<"a">>])
    \/ \E r \in Reqs : AliasOwn(r)
    \/ \E r \in Reqs : AliasDelete(r)
    \/ \E r \in Reqs : FetchAdminPatch(r, base64Url(1), DisableBob)
    \/ \E r \in Reqs : AdminPatchUpdate(r)
    \/ \E sw \in sweeps : cleanupSessions(sw)
    \/ \E sw \in sweeps : cleanupResetTokens(sw)

SpecInbound == InitInbound /\ [][NextInbound]_vars

\* Pending resets: the seeded store after Bob has asked for two reset tokens
\* and Alice for one at time 0 (the rows ResetRequestInsert writes, the mails
\* skipped for want of an API key); confirms with each token, with a DELETE
\* that may fail, the auth gate with the cookies of the seeded sessions,
\* sweep, clock.
PendingToken(n, user_id, e) ==
    [token_hash |-> sha256Base64Url(base64Url(n)), user_id |-> user_id,
     expires_at |-> safeInt(e.RESET_TTL_SECONDS, DefaultResetTtl), created_at |-> 0]

PendingTokens == {<<3, 2>>, <<4, 2>>, <<5, 1>>}

InitPending ==
    /\ users = {SeedUser(1, AliceBody, "admin", DefaultEnv),
                SeedUser(2, BobBody, "user", DefaultEnv)}
    /\ sessions = {SeedSession(1, DefaultEnv), SeedSession(2, DefaultEnv)}
    /\ reset_tokens = {PendingToken(p[1], p[2], DefaultEnv) : p \in PendingTokens}
    /\ aliases = {}
    /\ emails = {}
    /\ now = 0
    /\ req = [r \in Reqs |-> IdleSlot]
    /\ out = NoAnswer
    /\ sweeps = {}
    /\ outbox = {[to |-> IF p[2] = 1 THEN AliceMail ELSE BobMail, token |-> base64Url(p[1]),
                  send |-> "skipped"] : p \in PendingTokens}
    /\ log = NoLog
    /\ nextId = 3
    /\ nextTok = 6
    /\ nextSalt = 3
    /\ nextMail = 1
    /\ live = {[token |-> base64Url(n), user_id |-> n, t |-> 0,
                ttl |-> safeInt(DefaultEnv.SESSION_TTL_SECONDS, DefaultSessionTtl),
                raced |-> FALSE] : n \in {1, 2}}
    /\ confirmed = {}
    /\ pwSetBy = {}
    /\ env = DefaultEnv

PendingConfirms == {[token |-> base64Url(p[1]), newPw |-> Pw3] : p \in PendingTokens}

NextPending ==
    \/ \E r \in Reqs : \E body \in PendingConfirms : FetchResetConfirm(r, body)
    \/ \E r \in Reqs : ResetConfirmUpdate(r)
    \/ \E r \in Reqs : ResetConfirmDelete(r)
    \/ \E r \in Reqs : ResetConfirmDeleteFails(r)
    \/ \E cookie \in {base64Url(1), base64Url(2)} : FetchMe(cookie)
    \/ \E sw \in sweeps : cleanupSessions(sw)
    \/ \E sw \in sweeps : cleanupResetTokens(sw)
    \/ Tick

SpecPending == InitPending /\ [][NextPending]_vars

\* A reset pending for a disabled user: the seeded store after Bob has asked
\* for a reset token at time 0 and the admin has then disabled him (the rows
\* ResetRequestInsert and AdminPatchUpdate write); confirms with his token
\* and with none, his logins with the old and the new password, the auth
\* gate with the cookies of the seeded sessions, sweep, clock.
DisabledSeed(u) == [u EXCEPT !.disabled = Number(DisableBob.disabled).num]

InitDisabled ==
    /\ users = {SeedUser(1, AliceBody, "admin", DefaultEnv),
                DisabledSeed(SeedUser(2, BobBody, "user", DefaultEnv))}
    /\ sessions = {SeedSession(1, DefaultEnv), SeedSession(2, DefaultEnv)}
    /\ reset_tokens = {PendingToken(3, 2, DefaultEnv)}
    /\ aliases = {}
    /\ emails = {}
    /\ now = 0
    /\ req = [r \in Reqs |-> IdleSlot]
    /\ out = NoAnswer
    /\ sweeps = {}
    /\ outbox = {[to |-> BobMail, token |-> base64Url(3), send |-> "skipped"]}
    /\ log = NoLog
    /\ nextId = 3
    /\ nextTok = 4
    /\ nextSalt = 3
    /\ nextMail = 1
    /\ live = {[token |-> base64Url(n), user_id |-> n, t |-> 0,
                ttl |-> safeInt(DefaultEnv.SESSION_TTL_SECONDS, DefaultSessionTtl),
                raced |-> FALSE] : n \in {1, 2}}
    /\ confirmed = {}
    /\ pwSetBy = {}
    /\ env = DefaultEnv

DisabledConfirms ==
    {[token |-> base64Url(3), newPw |-> Pw3], [token |-> base64Url(3), newPw |-> PwShort],
     [token |-> NoCookie, newPw |-> Pw3], [token |-> base64Url(1), newPw |-> Pw3]}

DisabledLogins == {[id |-> id, pw |-> pw] : id \in {Bob, BobMail}, pw \in {Pw2, Pw3}}

NextDisabled ==
    \/ \E r \in Reqs : \E body \in DisabledConfirms : FetchResetConfirm(r, body)
    \/ \E r \in Reqs : ResetConfirmUpdate(r)
    \/ \E r \in Reqs : ResetConfirmDelete(r)
    \/ \E r \in Reqs : \E body \in DisabledLogins : FetchLogin(r, body)
    \/ \E cookie \in {base64Url(1), base64Url(2)} : FetchMe(cookie)
    \/ \E sw \in sweeps : cleanupSessions(sw)
    \/ \E sw \in sweeps : cleanupResetTokens(sw)
    \/ Tick

SpecDisabled == InitDisabled /\ [][NextDisabled]_vars

\* Deployments: the empty store under a configured env.PBKDF2_ITERS, with
\* and without the pass_iters column, in an isolate whose PRAGMA ends either
\* way; Bob signs up, resets his password and logs in with the passwords of
\* both, deployments and fresh isolates between the requests; sweep.
DeployIters == {Undefined, Num(50000)}
TableInfos == {"ok", "throws"}

InitDeploy ==
    \E v \in DeployIters : \E col \in BOOLEAN : \E p \in TableInfos :
        /\ InitStore
        /\ env = [DefaultEnv EXCEPT !.PBKDF2_ITERS = v,
                                    !.DB = [pass_iters |-> col, table_info |-> p]]

DeployLogins == {[id |-> Bob, pw |-> pw] : pw \in {Pw1, Pw2}}

NextDeploy ==
    \/ \E r \in Reqs : FetchSignup(r, BobBody)
    \/ \E r \in Reqs : SignupInsert(r)
    \/ \E r \in Reqs : SignupSession(r)
    \/ \E r \in Reqs : \E body \in DeployLogins : FetchLogin(r, body)
    \/ \E r \in Reqs : LoginSession(r)
    \/ \E r \in Reqs : FetchResetRequest(r, [email |-> BobMail])
    \/ \E r \in Reqs : ResetRequestInsert(r)
    \/ \E r \in Reqs : \E body \in BobConfirms : FetchResetConfirm(r, body)
    \/ \E r \in Reqs : ResetConfirmUpdate(r)
    \/ \E r \in Reqs : ResetConfirmDelete(r)
    \/ \E v \in DeployIters : \E p \in TableInfos : Deploy(v, p)
    \/ \E sw \in sweeps : cleanupSessions(sw)
    \/ \E sw \in sweeps : cleanupResetTokens(sw)

SpecDeploy == InitDeploy /\ [][NextDeploy]_vars

\* The sweep beside resolve and confirm: login, the auth gate, reset request
\* and confirm, a sweep whose statements may throw, clock.
NextSweep ==
    \/ \E r \in Reqs : FetchLogin(r, [id |-> BobMail, pw |-> Pw2])
    \/ \E r \in Reqs : LoginSession(r)
    \/ \E cookie \in Cookies : FetchMe(cookie)
    \/ \E r \in Reqs : FetchResetRequest(r, [email |-> AliceMail])
    \/ \E r \in Reqs : ResetRequestInsert(r)
    \/ \E r \in Reqs : \E body \in ResetConfirms : FetchResetConfirm(r, body)
    \/ \E r \in Reqs : ResetConfirmUpdate(r)
    \/ \E r \in Reqs : ResetConfirmDelete(r)
    \/ \E sw \in sweeps : cleanupSessions(sw)
    \/ \E sw \in sweeps : cleanupSessionsFails(sw)
    \/ \E sw \in sweeps : cleanupResetTokens(sw)
    \/ \E sw \in sweeps : cleanupResetTokensFails(sw)
    \/ Tick

SpecSweep == InitSeeded /\ [][NextSweep]_vars

\* The sweep over time: requests keep arriving (the auth gate and reset
\* requests), a handler in flight takes its next step, and of the DELETEs of
\* the sweeps, which may throw, one succeeds again and again.
NextLive ==
    \/ \E cookie \in Cookies : FetchMe(cookie)
    \/ \E r \in Reqs : FetchResetRequest(r, [email |-> AliceMail])
    \/ \E r \in Reqs : ResetRequestInsert(r)
    \/ \E sw \in sweeps : cleanupSessions(sw)
    \/ \E sw \in sweeps : cleanupSessionsFails(sw)
    \/ \E sw \in sweeps : cleanupResetTokens(sw)
    \/ \E sw \in sweeps : cleanupResetTokensFails(sw)
    \/ Tick

FairLive ==
    /\ WF_vars(\E cookie \in Cookies : FetchMe(cookie))
    /\ WF_vars(\E r \in Reqs : ResetRequestInsert(r))
    /\ SF_vars(\E sw \in sweeps : cleanupSessions(sw))
    /\ SF_vars(\E sw \in sweeps : cleanupResetTokens(sw))

SpecLive == InitSeeded /\ [][NextLive]_vars /\ FairLive

\* ------------------------------------------------------------------ claims
\* The sessions rows that make a cookie valid now: the digest matches, the row
\* has not expired, and its owner exists and is enabled.
ValidSessions(cookie) ==
    {su \in sessions \X users :
        /\ cookie # NoCookie
        /\ su[1].token_hash = sha256Base64Url(cookie)
        /\ su[1].expires_at > now
        /\ su[2].id = su[1].user_id
        /\ su[2].disabled = 0}

\* The answer of the step came from the auth gate of an authenticated route.
GateAnswer ==
    \/ out.op = "me"
    \/ out.op = "adminPatch" /\ out.resp # Ok

\* C1: resolve returns an identity for a cookie iff a sessions row has the
\* digest of the cookie, expires_at > now and an enabled owner; in every other
\* case (no cookie, no row, expired, owner disabled) it returns null, which
\* the gate answers with 401 and not with an error.
C1_ResolveIffValidSession ==
    /\ out.op = "me" =>
          IF ValidSessions(out.cookie) # {}
          THEN /\ out.resp.status = 200
               /\ \E su \in ValidSessions(out.cookie) :
                     /\ out.resp.user.id = su[2].id
                     /\ out.resp.user.username = su[2].username
                     /\ out.resp.user.email = su[2].email
          ELSE out.resp = unauthorized("Unauthorized")
    /\ out.op = "adminPatch" /\ out.resp # Ok =>
          (out.resp = unauthorized("Unauthorized") <=> ValidSessions(out.cookie) = {})

\* The gate resolves the session of a later login to Alice.
C1_Witness ==
    /\ out.op = "me"
    /\ out.cookie = base64Url(3)
    /\ out.resp.status = 200
    /\ out.resp.user.username = Alice

\* C2: the token createSession(U, ttl) returned at time t resolves to U at
\* every time before t + ttl while it has not been destroyed and U is
\* enabled, and no token ever resolves to a user it was not issued to.
C2_SessionRoundTrip ==
    out.op = "me" =>
        /\ \A i \in live :
              (/\ i.token = out.cookie
               /\ now < i.t + i.ttl
               /\ \E u \in users : u.id = i.user_id /\ u.disabled = 0)
              => out.resp.status = 200 /\ out.resp.user.id = i.user_id
        /\ out.resp.status = 200 =>
              \E i \in live : i.token = out.cookie /\ i.user_id = out.resp.user.id

\* Bob's login session resolves to Bob in its last second, after the sessions
\* of the signups have been swept.
C2_Witness ==
    /\ out.op = "me"
    /\ out.cookie = base64Url(3)
    /\ out.resp.status = 200
    /\ out.resp.user.id = 2
    /\ \E i \in live : i.token = out.cookie /\ now = i.t + i.ttl - 1 /\ i.ttl > 1
    /\ Cardinality(sessions) = 1

\* The row createSession writes for a session it returned.
SessionRow(i) ==
    [token_hash |-> sha256Base64Url(i.token), user_id |-> i.user_id,
     expires_at |-> i.t + i.ttl, created_at |-> i.t]

\* C3: createSession at t with ttlSeconds writes the one row with
\* expires_at = t + ttlSeconds and created_at = t (every row of sessions is
\* such a row, and it is there while it has not expired); resolve of its token
\* succeeds at every n < t + ttlSeconds and returns null at every
\* n >= t + ttlSeconds, so never for ttlSeconds <= 0.
C3_ExpiryBoundary ==
    /\ \A s \in sessions : \E i \in live : s = SessionRow(i)
    /\ \A i \in live : now < i.t + i.ttl => SessionRow(i) \in sessions
    /\ out.op = "me" =>
          \A i \in live : i.token = out.cookie =>
              (out.resp.status = 200 <=> now < i.t + i.ttl)

\* A login under ttl = 0: its row is in the table, and the gate answers its
\* cookie with 401 in the second it was created.
C3_Witness ==
    /\ out.op = "me"
    /\ out.cookie = base64Url(3)
    /\ out.resp.status = 401
    /\ \E i \in live :
          /\ i.token = out.cookie
          /\ i.ttl = 0
          /\ i.t = now
          /\ SessionRow(i) \in sessions

\* C4: while a user is disabled, the gate answers 401 to every request that
\* carries a session of that user, whenever the session was created.
OwnerDisabled(cookie) ==
    \E su \in sessions \X users :
        /\ su[1].token_hash = sha256Base64Url(cookie)
        /\ su[2].id = su[1].user_id
        /\ su[2].disabled = 1

C4_DisabledLockout ==
    GateAnswer /\ OwnerDisabled(out.cookie) => out.resp = unauthorized("Unauthorized")

\* A login raced with the disable: its session was written for a user already
\* disabled, the row has not expired, and the gate answers 401.
C4_Witness ==
    /\ out.op = "me"
    /\ OwnerDisabled(out.cookie)
    /\ \E i \in live : i.token = out.cookie /\ i.raced
    /\ \E s \in sessions : s.token_hash = sha256Base64Url(out.cookie) /\ s.expires_at > now
    /\ out.resp.status = 401

\* A raw reset token has a row that has not expired.
Consumable(token) ==
    \E rt \in reset_tokens :
        rt.token_hash = sha256Base64Url(token) /\ rt.expires_at > now

\* A confirm body that passes the shape checks.
WellFormedConfirm(body) ==
    body # Null /\ body.token # NoCookie /\ Len(body.newPw) >= MinPwLen

ConfirmedTokens == {c.token : c \in confirmed}

\* C5: a confirm that presents a consumable token with a valid new password
\* is not rejected; once a confirm has answered 200 for a token, every confirm
\* issued with that token is answered "Token invalid/expired", never gets to
\* its UPDATE, and leaves users as it is.
C5_ResetSingleUse ==
    [][/\ \A r \in Reqs :
             req[r].pc = "idle" /\ req'[r].op = "resetConfirm"
                 => req'[r].body.token \notin ConfirmedTokens
       /\ out'.op = "resetConfirm" /\ req' = req /\ WellFormedConfirm(out'.body) =>
             /\ ~Consumable(out'.body.token)
             /\ out'.body.token \in ConfirmedTokens =>
                   /\ out'.resp = badRequest("Token invalid/expired")
                   /\ users' = users]_vars

\* The second confirm of a token, in the second the token was issued.
C5_Witness ==
    /\ out.op = "resetConfirm"
    /\ out.body.token \in ConfirmedTokens
    /\ out.resp = badRequest("Token invalid/expired")
    /\ \E m \in outbox : m.token = out.body.token
    /\ now = 0

\* C6: of the confirms that present one token at most one answers 200 (each
\* of them has written the password: the 200 follows the UPDATE).
C6_AtMostOneConfirm ==
    \A tok \in ConfirmedTokens : Cardinality({c \in confirmed : c.token = tok}) <= 1

\* C7: the password has been changed by a token whose row is still there and
\* not expired only while the request that changed it stands between its
\* UPDATE and its DELETE.
C7_UpdateDeleteOneUnit ==
    \A p \in pwSetBy :
        Consumable(p.token) =>
            \E r \in Reqs : At(r, "resetConfirm", "delete") /\ req[r].l.pass_salt = p.by

\* C8: a confirm whose token has no row, or a row with expires_at <= now, is
\* answered "Token invalid/expired" by its lookup step, which leaves users,
\* sessions and reset_tokens as they are; it never gets to its UPDATE.
C8_AbsentOrExpiredInert ==
    [][/\ \A r \in Reqs :
             req[r].pc = "idle" /\ req'[r].op = "resetConfirm"
                 => Consumable(req'[r].body.token)
       /\ (/\ out'.op = "resetConfirm"
           /\ req' = req
           /\ WellFormedConfirm(out'.body)
           /\ ~Consumable(out'.body.token)) =>
             /\ out'.resp = badRequest("Token invalid/expired")
             /\ users' = users
             /\ sessions' = sessions
             /\ reset_tokens' = reset_tokens]_vars

\* A token is refused at expires_at = now exactly, its row still in the table.
C8_Witness ==
    /\ out.op = "resetConfirm"
    /\ out.resp = badRequest("Token invalid/expired")
    /\ \E rt \in reset_tokens :
          rt.token_hash = sha256Base64Url(out.body.token) /\ rt.expires_at = now
    /\ pwSetBy = {}

\* An enabled user has the address (as the handler normalises it).
EnabledOwner(email) ==
    \E u \in users : u.email = toLowerCase(trim(email)) /\ u.disabled = 0

\* C9: every reset request with a well-formed address is answered 200
\* {ok: true}; a request whose address has no enabled owner is answered by its
\* lookup step, which writes no reset_tokens row and sends nothing; rows and
\* notifications come only from the INSERT step of a request that found an
\* enabled owner.
C9_AntiEnumeration ==
    [][/\ (/\ out'.op = "resetRequest"
           /\ out'.body # Null
           /\ ValidEmail(toLowerCase(trim(out'.body.email)))) => out'.resp = Ok
       /\ \A r \in Reqs :
             req[r].pc = "idle" /\ req'[r].op = "resetRequest"
                 => EnabledOwner(req'[r].body.email)
       /\ ~(reset_tokens' \subseteq reset_tokens) \/ ~(outbox' \subseteq outbox) =>
             \E r \in Reqs : At(r, "resetRequest", "insert") /\ req'[r].pc = "idle"]_vars

\* The request for disabled Bob's address is answered 200 and has left no row
\* and no notification.
C9_Witness ==
    /\ out.op = "resetRequest"
    /\ out.body.email = BobMail
    /\ \E u \in users : u.email = BobMail /\ u.disabled = 1
    /\ out.resp = Ok
    /\ reset_tokens = {}
    /\ outbox = {}

Admins(us) == {u \in us : u.role = "admin"}

\* C10: whenever there is a user there is exactly one admin, and the admin is
\* the first user created: the set of admins is fixed by the first INSERT.
C10_OneAdminFirstUser ==
    [][/\ users' # {} => Cardinality(Admins(users')) = 1
       /\ users # {} => Admins(users') = Admins(users)]_vars

\* C11: with signups one after another, the row a signup inserts has role
\* admin when the table was empty and role user otherwise, no row is ever
\* changed or removed by a signup, and a signup answered 400 (validation or
\* uniqueness) leaves users as it is, so it takes the admin role from nobody.
C11_SequentialRoles ==
    [][/\ \A u \in users' \ users :
             u.role = (IF users = {} THEN "admin" ELSE "user")
       /\ users \subseteq users'
       /\ out'.op = "signup" /\ out'.resp.status = 400 => users' = users]_vars

\* Alice signed up first and is the admin, Bob second and is a user; Bob's
\* signup has just answered 200 with its cookie.
C11_Witness ==
    /\ out.op = "signup"
    /\ out.resp.status = 200
    /\ out.resp.cookie # NoCookie
    /\ \E a, b \in users :
          /\ a.username = Alice /\ a.role = "admin"
          /\ b.username = Bob /\ b.role = "user"
          /\ a.id < b.id

\* No two rows of a table of users share a username or an email.
UniqueCredentials(us) ==
    \A u, v \in us : u # v => u.username # v.username /\ u.email # v.email

\* C12: no two users rows share a username or an email; the INSERT of a
\* signup whose username or email is taken (by an earlier or a concurrent
\* signup) is answered 400 "Username/email sudah dipakai" and leaves users and
\* sessions as they are, the INSERT of any other signup adds its row and goes
\* on to createSession; every session belongs to a user that was inserted.
C12_UniqueCredentials ==
    [][/\ UniqueCredentials(users')
       /\ \A s \in sessions' : \E u \in users' : u.id = s.user_id
       /\ \A r \in Reqs :
             At(r, "signup", "insert") /\ req'[r] # req[r] =>
                 IF \E u \in users : u.username = req[r].l.username
                                        \/ u.email = req[r].l.email
                 THEN /\ req'[r] = IdleSlot
                      /\ out'.resp = badRequest("Username/email sudah dipakai")
                      /\ users' = users
                      /\ sessions' = sessions
                 ELSE /\ req'[r].pc = "session"
                      /\ \E u \in users' \ users :
                            /\ u.id = req[r].l.id
                            /\ u.username = req[r].l.username
                            /\ u.email = req[r].l.email]_vars

\* Two signups with Alice's username overlapped: one has inserted and stands
\* before its createSession, the other has just been answered 400.
C12_Witness ==
    /\ out.op = "signup"
    /\ out.resp = badRequest("Username/email sudah dipakai")
    /\ \E r \in Reqs : At(r, "signup", "session")
    /\ Cardinality(users) = 1
    /\ sessions = {}

\* The raw tokens drawn so far.
IssuedTokens == {base64Url(n) : n \in 1..(nextTok - 1)}

\* C13: a token that has been issued and is not Active (no unexpired row
\* with an enabled owner: it expired, was destroyed, or its owner was
\* disabled) is not Active after any step, so resolve never returns an
\* identity for it again.
C13_NoWayBackToActive ==
    [][\A tok \in IssuedTokens :
          ValidSessions(tok) = {} => ValidSessions(tok)' = {}]_vars

\* C14: a logout deletes exactly the sessions rows whose token_hash is the
\* digest of the presented cookie (none when the cookie is missing or matches
\* no row), leaves every other row of sessions, users and reset_tokens as it
\* is, is answered 200, leaves the token unresolvable, and destroySession
\* applied once more to the resulting table changes nothing.
C14_DestroyIdempotentLocal ==
    [][out'.op = "logout" =>
          \E c \in Cookies :
              /\ c = out'.cookie
              /\ sessions' = {s \in sessions :
                                 c = NoCookie \/ s.token_hash # sha256Base64Url(c)}
              /\ users' = users
              /\ reset_tokens' = reset_tokens
              /\ out'.resp.status = 200
              /\ ValidSessions(c)' = {}
              /\ destroySession(c)' = sessions']_vars

\* Alice has logged out of her first session while her second session, of a
\* later login, is still in the table.
C14_Witness ==
    /\ out.op = "logout"
    /\ out.cookie = base64Url(1)
    /\ \A s \in sessions : s.token_hash # sha256Base64Url(base64Url(1))
    /\ \E s \in sessions : s.user_id = 1 /\ s.expires_at > now

ResetRows(token) == {rt \in reset_tokens : rt.token_hash = sha256Base64Url(token)}

\* C16: a statement of the sweep changes the outcome of no resolve and of
\* no confirm lookup: getUserBySession returns the same for every cookie and
\* the expiry check of reset/confirm the same for every token, before and
\* after it; and with no logout and no disable in play the gate answers a
\* cookie 200 exactly while its session, as createSession issued it, has not
\* expired, whatever sweeps have run.
C16_SweepInvisible ==
    [][/\ sweeps \ sweeps' # {} =>
             /\ \A c \in Cookies : getUserBySession(c)' = getUserBySession(c)
             /\ \A c \in Cookies \ {NoCookie} :
                   ResetTokenUsable(ResetRows(c))' = ResetTokenUsable(ResetRows(c))
       /\ out'.op = "me" =>
             (out'.resp.status = 200 <=>
                 \E i \in live' : i.token = out'.cookie /\ now' < i.t + i.ttl)]_vars

\* The gate accepts Bob's later session after a sweep has deleted the two
\* sessions that expired.
C16_Witness ==
    /\ out.op = "me"
    /\ out.resp.status = 200
    /\ Cardinality(live) = 3
    /\ Cardinality(sessions) = 1
    /\ \A s \in sessions : s.expires_at > now

\* C17: a store error in the sweep is logged and nothing else: the step in
\* which a DELETE of cleanupExpired throws answers nobody, leaves every
\* handler in flight where it was and changes no table, no mail, no token
\* and no clock, so each handler computes its response from the state it
\* would have seen had the DELETE not run; and no response is a 500.
C17_SweepFailureSilent ==
    [][/\ log' # NoLog =>
             /\ sweeps \ sweeps' # {}
             /\ req' = req
             /\ out' = NoAnswer
             /\ store' = store
             /\ outbox' = outbox
             /\ now' = now
       /\ out'.resp.status # 500]_vars

\* The first DELETE of a sweep has just thrown while the login that started
\* it waits to insert its session.
C17_Witness ==
    /\ log = "cleanup sessions error"
    /\ \E r \in Reqs : At(r, "login", "session")
    /\ \E s \in sessions : s.expires_at <= now

\* C18: the step in which a login or a signup creates its session adds one
\* row to sessions and removes or changes none, every cookie that resolved
\* before it resolves to the same user after it, and so at any time every
\* session issued to the user and not yet expired resolves, however many
\* there are.
C18_ManySessions ==
    [][/\ live' # live =>
             /\ sessions \subseteq sessions'
             /\ Cardinality(sessions' \ sessions) = 1
             /\ out'.resp.status = 200
             /\ \A c \in Cookies :
                   getUserBySession(c) # Null =>
                       getUserBySession(c)' = getUserBySession(c)
       /\ \A i \in live' :
             now' < i.t + i.ttl => getUserBySession(i.token)' # Null]_vars

\* Alice holds three unexpired sessions, from her signup and two logins, and
\* the gate has just accepted the oldest.
C18_Witness ==
    /\ Cardinality({s \in sessions : s.user_id = 1 /\ s.expires_at > now}) = MaxTokens
    /\ out.op = "me"
    /\ out.cookie = base64Url(1)
    /\ out.resp.status = 200

\* The numbers and short texts held in the columns of the three tables.
\* (usernames, emails and roles are request texts of another shape than a
\* token, and pass_hash is a PBKDF2 output.)
StoredValues ==
    UNION ({{u.id, u.pass_salt, u.pass_iters, u.alias_limit.num, u.disabled, u.created_at} :
                u \in users}
           \cup {{s.token_hash, s.user_id, s.expires_at, s.created_at} :
                    s \in sessions \cup reset_tokens})

\* C19: every token_hash in sessions and in reset_tokens is the digest of a
\* token that was drawn, no column of any table holds a drawn token itself,
\* a response carries a token in Set-Cookie only when login or signup has
\* just stored the digest of that token, a mail carries only reset tokens,
\* and no session token is mailed.
C19_RawTokensNotStored ==
    /\ \A row \in sessions \cup reset_tokens :
          \E tok \in IssuedTokens : row.token_hash = sha256Base64Url(tok)
    /\ StoredValues \cap IssuedTokens = {}
    /\ out.resp.cookie # NoCookie =>
          /\ out.op \in {"login", "signup"}
          /\ \E s \in sessions : s.token_hash = sha256Base64Url(out.resp.cookie)
          /\ \A m \in outbox : m.token # out.resp.cookie
    /\ \A m \in outbox :
          /\ m.token \in IssuedTokens
          /\ \A i \in live : i.token # m.token
          /\ \A s \in sessions : s.token_hash # sha256Base64Url(m.token)

\* A reset token has been mailed and its digest is in reset_tokens, beside
\* the sessions of the two users.
C19_Witness ==
    /\ \E m \in outbox :
          \E rt \in reset_tokens : rt.token_hash = sha256Base64Url(m.token)
    /\ Cardinality(sessions) = 2

\* The password Bob's row was last given under SpecCredentials: that of his
\* signup until a confirm has run its UPDATE, the confirm's from then on.
LastPassword == IF pwSetBy = {} THEN BobBody.pw ELSE Pw1

\* The enabled users a login body names, by username or by email.
LoginTarget(body) ==
    {u \in users : /\ u.disabled = 0
                   /\ \/ u.username = toLowerCase(trim(body.id))
                      \/ u.email = toLowerCase(trim(body.id))}

\* The step is a login answered before any session is created.
LoginRejected == out'.op = "login" /\ req' = req /\ out'.body # Null

\* The step is a login that passed the verification.
LoginAccepted(r) == req[r].pc = "idle" /\ At(r, "login", "session")'

\* The step is the createSession of an accepted login: it answers 200 with
\* the cookie of a session row of the user it has just inserted.
LoginCreatesSession ==
    \A r \in Reqs :
        At(r, "login", "session") /\ req'[r].pc = "idle" =>
            /\ out'.resp.status = 200
            /\ \E s \in sessions' \ sessions :
                  /\ s.token_hash = sha256Base64Url(out'.resp.cookie)
                  /\ s.user_id = req[r].l.id

\* C20 as stated: for an enabled user, a login with the password last set
\* is never rejected and goes on to create a session, and a login with any
\* other password is rejected with 401.
C20_LoginRoundTrip ==
    [][/\ LoginRejected /\ LoginTarget(out'.body) # {} =>
             /\ out'.body.pw # LastPassword
             /\ out'.resp.status = 401
       /\ \A r \in Reqs :
             LoginAccepted(r) =>
                 /\ LoginTarget(req'[r].body) # {}
                 /\ req'[r].body.pw = LastPassword
       /\ LoginCreatesSession]_vars

\* C20 (amended): as above, with a login with any other non-empty password
\* rejected with 401 and a login with an empty password rejected with 400.
C20_LoginRoundTripNonEmpty ==
    [][/\ LoginRejected /\ LoginTarget(out'.body) # {} =>
             /\ out'.body.pw # LastPassword
             /\ out'.resp.status = IF out'.body.pw = <<>> THEN 400 ELSE 401
       /\ \A r \in Reqs :
             LoginAccepted(r) =>
                 /\ LoginTarget(req'[r].body) # {}
                 /\ req'[r].body.pw = LastPassword
       /\ LoginCreatesSession]_vars

\* After a confirm has changed Bob's password, a login by email with the
\* new password has been answered 200 with a session cookie.
C20_Witness ==
    /\ pwSetBy # {}
    /\ out.op = "login"
    /\ out.body = [id |-> <<"B">> \o Tail(BobMail), pw |-> Pw1]
    /\ out.resp.status = 200
    /\ out.resp.cookie # NoCookie

\* The users a login body names, enabled or not.
LoginNamed(body) ==
    {u \in users : \/ u.username = toLowerCase(trim(body.id))
                   \/ u.email = toLowerCase(trim(body.id))}

\* The password each seeded user signed up with.
SignupPassword(u) == IF u.id = 1 THEN AliceBody.pw ELSE BobBody.pw

\* The login is one of the three failures: nobody has the identifier, the
\* account is disabled, or the password is not the account's.
AuthenticationFailure(body) ==
    \/ LoginNamed(body) = {}
    \/ \E u \in LoginNamed(body) : u.disabled # 0
    \/ \E u \in LoginNamed(body) : body.pw # SignupPassword(u)

\* C21: a login with an unknown identifier, for a disabled account (right
\* password or wrong) or with a wrong password is answered in its first
\* step with one and the same response, 401 "Login gagal" without a cookie,
\* writes nothing, and never goes on to createSession.
C21_AuthFailureIndistinguishable ==
    [][/\ LoginRejected /\ AuthenticationFailure(out'.body) =>
             /\ out'.resp = unauthorized("Login gagal")
             /\ out'.resp.cookie = NoCookie
             /\ store' = store
       /\ \A r \in Reqs :
             LoginAccepted(r) => ~AuthenticationFailure(req'[r].body)]_vars

\* Bob, disabled by the admin, has just been refused with his right password.
C21_Witness ==
    /\ out.op = "login"
    /\ out.body = [id |-> Bob, pw |-> Pw2]
    /\ out.resp.status = 401
    /\ \E u \in users : u.username = Bob /\ u.disabled # 0

\* The count the claim gives for a configured value: 100000 for a missing
\* or non-numeric one, else the value brought into [10000, 100000].
ClaimedIters(v) ==
    IF "num" \notin DOMAIN v THEN 100000
    ELSE IF v.num < 10000 THEN 10000
    ELSE IF v.num > 100000 THEN 100000
    ELSE v.num

\* The same, with the empty text counted as the number 0 it converts to.
ClaimedItersBlankZero(v) == IF v = EmptyText THEN 10000 ELSE ClaimedIters(v)

\* The credentials written or about to be written: the rows of users and
\* the values a signup or a confirm in flight has derived.
PasswordSets ==
    {[hash |-> u.pass_hash, iters |-> u.pass_iters] : u \in users}
        \cup {[hash |-> req[r].l.pass_hash, iters |-> req[r].l.iters] :
                 r \in {q \in Reqs : At(q, "signup", "insert")
                                         \/ At(q, "resetConfirm", "update")}}

\* C22 as stated: every password set of the capped variant (it records its
\* count in pass_iters) is derived with the count the claim gives for the
\* configured PBKDF2_ITERS, which lies in [10000, 100000]; every password
\* set of the uncapped variant is derived with 310000.
C22_IterationPolicy ==
    \A c \in PasswordSets :
        IF c.iters # 0
        THEN /\ c.hash[3] = c.iters
             /\ c.iters >= 10000 /\ c.iters <= 100000
             /\ c.iters = ClaimedIters(env.PBKDF2_ITERS)
        ELSE c.hash[3] = 310000

\* C22 (amended): as above, with a PBKDF2_ITERS configured as the empty
\* text giving 10000.
C22_IterationPolicyBlankZero ==
    \A c \in PasswordSets :
        IF c.iters # 0
        THEN /\ c.hash[3] = c.iters
             /\ c.iters >= 10000 /\ c.iters <= 100000
             /\ c.iters = ClaimedItersBlankZero(env.PBKDF2_ITERS)
        ELSE c.hash[3] = 310000

\* Under PBKDF2_ITERS = 9999 Bob's password has been set by a confirm with
\* 10000 iterations, beside Alice's of the uncapped variant.
C22_Witness ==
    /\ env.PBKDF2_ITERS = Num(9999)
    /\ pwSetBy # {}
    /\ \E u \in users : u.pass_iters = 10000 /\ u.pass_hash[1] = Pw1
    /\ \E u \in users : u.pass_iters = 0 /\ u.pass_hash[3] = 310000

\* The login names an enabled user whose stored pass_iters exceeds 100000.
OverCeiling(body) == \E u \in LoginTarget(body) : u.pass_iters > 100000

\* C23: a login for an enabled user whose stored pass_iters exceeds 100000
\* is never accepted: it is answered in its first step, with the 500 of the
\* failed derivation when it gave a password (whether the right one or
\* not), without a cookie and without a write; no session of that user
\* ever exists.
C23_OverCeilingFails ==
    [][/\ LoginRejected /\ OverCeiling(out'.body) =>
             /\ out'.resp.status = IF out'.body.pw = <<>> THEN 400 ELSE 500
             /\ out'.resp.cookie = NoCookie
             /\ store' = store
       /\ \A r \in Reqs : LoginAccepted(r) => ~OverCeiling(req'[r].body)
       /\ \A s \in sessions' : \A u \in users : u.id = s.user_id => u.pass_iters <= 100000]_vars

\* Bob's login with his right password has ended in the 500, after Alice
\* has logged in.
C23_Witness ==
    /\ out.op = "login"
    /\ out.body = [id |-> Bob, pw |-> Pw2]
    /\ out.resp.status = 500
    /\ sessions # {}

\* The confirm whose UPDATE wrote the credential the row holds, if any.
Setter(u) == {p \in pwSetBy : p.by = u.pass_salt}

\* The password of the row under SpecNewPw: the newPw sent with the token of
\* the confirm that wrote it, or the signup's.
CurrentPassword(u) ==
    IF Setter(u) = {} THEN BobBody.pw
    ELSE LET p == CHOOSE q \in Setter(u) : TRUE
         IN  (CHOOSE b \in NewPwConfirms : b.token = p.token).newPw

\* C24: the UPDATE of a confirm gives its user a salt no row held before and
\* the hash of the confirm's newPw under that salt, and leaves the other
\* rows alone; from then until another UPDATE a login of that user is
\* accepted exactly with that newPw, and refused with 401 with any other
\* password, his previous one included.
C24_NewPasswordTakesOver ==
    [][/\ \A r \in Reqs :
             At(r, "resetConfirm", "update") /\ ~At(r, "resetConfirm", "update")' =>
                 /\ \A u \in users : u.pass_salt # req[r].l.pass_salt
                 /\ \A u \in users' :
                       IF u.id = req[r].l.user_id
                       THEN /\ u.pass_salt = req[r].l.pass_salt
                            /\ u.pass_hash =
                                   pbkdf2HashBase64Url(req[r].body.newPw,
                                                       base64UrlToBytes(u.pass_salt),
                                                       u.pass_iters)
                       ELSE u \in users
       /\ LoginRejected =>
             \A u \in LoginTarget(out'.body) :
                 Setter(u) # {} =>
                     /\ out'.body.pw # CurrentPassword(u)
                     /\ out'.resp.status = 401
       /\ \A r \in Reqs :
             LoginAccepted(r) =>
                 \A u \in LoginTarget(req'[r].body) :
                     req'[r].body.pw = CurrentPassword(u)]_vars

\* After a confirm has changed Bob's password, his login with the password
\* of his signup has been refused.
C24_Witness ==
    /\ \E u \in users : Setter(u) # {}
    /\ out.op = "login"
    /\ out.body = [id |-> Bob, pw |-> BobBody.pw]
    /\ out.resp.status = 401

\* The calls of sendResetEmail, whatever has become of them.
Mails(box) == {[to |-> m.to, token |-> m.token] : m \in box}

\* C25: the INSERT step of a reset request stores the digest of its token,
\* hands the send to waitUntil still pending and answers 200; every later
\* step of the send (skipped for want of a key, sent, refused or thrown)
\* answers nobody, moves no handler and writes no table, so the response and
\* the stored token are the same in each outcome; no response is a 500.
C25_SendIndependent ==
    [][/\ \A r \in Reqs :
             At(r, "resetRequest", "insert") /\ req'[r].pc = "idle" =>
                 /\ out'.resp = Ok
                 /\ \E rt \in reset_tokens' \ reset_tokens :
                       rt.token_hash = sha256Base64Url(req[r].l.token)
                 /\ [to |-> req[r].l.email, token |-> req[r].l.token, send |-> "pending"]
                        \in outbox'
       /\ (outbox' # outbox /\ Mails(outbox') = Mails(outbox)) =>
             /\ req' = req
             /\ out' = NoAnswer
             /\ store' = store
       /\ out'.resp.status # 500]_vars

\* With an API key configured a send has thrown, and the token it carried
\* is stored all the same.
C25_Witness ==
    \E m \in outbox :
        /\ m.send = "threw"
        /\ \E rt \in reset_tokens : rt.token_hash = sha256Base64Url(m.token)

\* C26: the step in which a store statement of a handler throws ends that
\* request, and no other, with a 500 whose body does not carry the message
\* of the store's error.
C26_GenericStoreFailure ==
    [][log' \in {"api error", "signup db error"} =>
          /\ out'.resp.status = 500
          /\ out'.resp.error # StoreErrorText
          /\ \E r \in Reqs :
                /\ req[r].pc # "idle"
                /\ req' = [req EXCEPT ![r] = IdleSlot]]_vars

\* The row of a table that holds the digest of the n-th token has expired.
Overdue(table, n) ==
    \E row \in table :
        row.token_hash = sha256Base64Url(base64Url(n)) /\ row.expires_at <= now

\* The table holds no row for the n-th token.
Gone(table, n) ==
    \A row \in table : row.token_hash # sha256Base64Url(base64Url(n))

\* The step starts a request: it answers at once or takes a slot.
RequestArrives ==
    \/ out'.op # "none" /\ req' = req
    \/ \E r \in Reqs : req[r].pc = "idle" /\ req'[r].pc # "idle"

\* C27: while requests keep arriving and the DELETEs succeed again and again,
\* a sessions row and a reset_tokens row whose expires_at has passed is
\* deleted in the end; and every request, whatever it asks and however it
\* is answered, starts a sweep bound to the time of its arrival.
C27_ExpiredRowsSwept ==
    /\ \A n \in 1..MaxTokens : Overdue(sessions, n) ~> Gone(sessions, n)
    /\ \A n \in 1..MaxTokens : Overdue(reset_tokens, n) ~> Gone(reset_tokens, n)
    /\ [][RequestArrives => [t |-> now, stage |-> "sessions"] \in sweeps']_vars

\* The sessions of the seed and a reset token have expired and the sweeps
\* have deleted them all.
C27_Witness ==
    /\ now = MaxTime
    /\ nextTok > MaxTokens
    /\ sessions = {}
    /\ reset_tokens = {}

\* The columns that make a user's identity.
Identity(u) ==
    [id |-> u.id, username |-> u.username, email |-> u.email, role |-> u.role,
     created_at |-> u.created_at]

\* The columns a confirm writes, and those an admin PATCH writes.
Credential(u) == <<u.pass_salt, u.pass_hash, u.pass_iters>>
Standing(u) == <<u.alias_limit, u.disabled>>

\* C28: no step removes a users row or changes its id, username, email,
\* role or created_at; a row's salt, hash or iterations change only in the
\* UPDATE of a confirm that passed its checks (a password of 8 characters or
\* more, the token of a row of that user); its alias_limit or disabled
\* change only in the UPDATE of an admin PATCH on that user.
C28_UsersFrame ==
    [][\A u \in users :
          \E v \in users' :
              /\ Identity(v) = Identity(u)
              /\ Credential(v) # Credential(u) =>
                    \E r \in Reqs : /\ At(r, "resetConfirm", "update")
                                     /\ At(r, "resetConfirm", "delete")'
                                     /\ req[r].l.user_id = u.id
                                     /\ Len(req[r].body.newPw) >= MinPwLen
                                     /\ req[r].l.tokenHash =
                                            sha256Base64Url(req[r].body.token)
                                     /\ Standing(v) = Standing(u)
              /\ Standing(v) # Standing(u) =>
                    \E r \in Reqs : /\ At(r, "adminPatch", "update")
                                     /\ req'[r].pc = "idle"
                                     /\ req[r].body.target = u.id
                                     /\ Credential(v) = Credential(u)]_vars

\* A user with a password set by a confirm and disabled by the admin.
C28_Witness ==
    \E u \in users : /\ u.disabled = 1
                     /\ \E p \in pwSetBy : p.by = u.pass_salt
                     /\ Cardinality(users) = MaxUsers

\* The routes behind "Auth required below".
Gated == {"me", "adminPatch"}

\* The step starts a request to a gated route with this cookie.
GatedArrives(c) ==
    \/ out'.op \in Gated /\ out'.cookie = c /\ req' = req
    \/ \E r \in Reqs : /\ req[r].pc = "idle" /\ req'[r].pc # "idle"
                        /\ req'[r].op \in Gated /\ req'[r].cookie = c

\* No cookie, or no sessions row of the cookie that has not expired.
NoValidSession(c) ==
    \/ c = NoCookie
    \/ \A s \in sessions : s.token_hash = sha256Base64Url(c) => s.expires_at <= now

Malformed(b) ==
    \/ ~ValidUsername(toLowerCase(trim(b.username)))
    \/ ~ValidEmail(toLowerCase(trim(b.email)))
    \/ Len(b.pw) < MinPwLen

\* The step starts a signup with this body.
SignupArrives(b) ==
    \/ out'.op = "signup" /\ out'.body = b /\ req' = req
    \/ \E r \in Reqs : /\ req[r].pc = "idle" /\ req'[r].pc # "idle"
                        /\ req'[r].op = "signup" /\ req'[r].body = b

LowerCase(s) == \A i \in 1..Len(s) : s[i] \notin DOMAIN Upper

\* C30: a signup whose body fails a check is answered 400 at once, writes no
\* user and no session and leaves no handler in flight; and every stored
\* username is in lower case, of 3 to 24 characters of a-z, 0-9 and _, and
\* every stored email is in lower case.
C30_SignupValidation ==
    /\ [][\A b \in ValidationBodies :
              SignupArrives(b) /\ Malformed(b) =>
                  /\ out'.resp.status = 400
                  /\ store' = store
                  /\ req' = req]_vars
    /\ [](\A u \in users :
             /\ LowerCase(u.username)
             /\ Len(u.username) \in UsernameMinLen..UsernameMaxLen
             /\ \A i \in 1..Len(u.username) : u.username[i] \in UsernameChars
             /\ LowerCase(u.email))

\* Alice and Bob are stored in lower case, both sent with upper-case
\* letters, and a signup with a malformed email has just been answered 400.
C30_Witness ==
    /\ \E u \in users : u.username = Alice /\ u.email = AliceMail
    /\ \E u \in users : u.username = Bob /\ u.email = BobMail
    /\ out.op = "signup" /\ out.resp.status = 400
    /\ out.body = [BobBody EXCEPT !.email = Bob]

\* C31: in every reachable state every user's alias_limit is a whole number
\* of 0 or more and disabled is 0 or 1; an admin PATCH that is answered at
\* once (400, 401 or 403) changes nothing, and one that writes leaves an
\* alias_limit within 0..1000.
C31_LimitsInRange ==
    /\ [](\A u \in users : /\ isInteger(u.alias_limit)
                            /\ u.alias_limit.num >= 0
                            /\ u.disabled \in {0, 1})
    /\ [][/\ out'.op = "adminPatch" /\ req' = req =>
                /\ out'.resp.status \in {400, 401, 403}
                /\ store' = store
          /\ \A u \in users' :
                u \notin users => /\ u.alias_limit.num >= 0
                                  /\ ~Above(u.alias_limit, MaxAliasLimit)]_vars

\* The rows of a local part.
AliasRows(local) == {a \in aliases : a.local_part = local}

\* The step ends the create of handler r.
CreateEnds(r) == req[r].op = "aliasCreate" /\ req[r].pc # "idle" /\ req'[r].pc = "idle"

\* No local part has two rows; no step changes the owner of a local part
\* that stays; a step removes an aliases row only as the DELETE of a delete
\* by the row's owner; and a delete that finds no row of its user for the
\* local part is answered 404.
AliasOwnership ==
    /\ [](\A a, b \in aliases : a.local_part = b.local_part => a = b)
    /\ [][/\ \A a \in aliases : \A b \in aliases' :
                a.local_part = b.local_part => a.user_id = b.user_id
          /\ \A a \in aliases \ aliases' :
                \E r \in Reqs : /\ At(r, "aliasDelete", "delete")
                                 /\ req[r].l.me.id = a.user_id
                                 /\ req[r].l.local = a.local_part
          /\ \A r \in Reqs :
                /\ At(r, "aliasDelete", "own") /\ req'[r].pc = "idle"
                /\ \A a \in AliasRows(req[r].l.local) : a.user_id # req[r].l.me.id
                => out'.resp.status = 404 /\ aliases' = aliases]_vars

\* C32: each local part is owned by exactly one user (AliasOwnership), and
\* a create that ends while its local part has a row is answered 400 and
\* leaves the table as it was, whatever the interleaving.
C32_OneOwner ==
    /\ AliasOwnership
    /\ [][\A r \in Reqs :
              CreateEnds(r) /\ AliasRows(req[r].l.local) # {} =>
                  out'.resp.status = 400 /\ aliases' = aliases]_vars

\* C32 as the code has it: the create is answered 400, or 403 when the
\* quota check, which comes before the INSERT, finds the user at the limit.
C32_OneOwnerOrQuota ==
    /\ AliasOwnership
    /\ [][\A r \in Reqs :
              CreateEnds(r) /\ AliasRows(req[r].l.local) # {} =>
                  /\ aliases' = aliases
                  /\ out'.resp.status \in {400, 403}
                  /\ out'.resp.status = 403 =>
                        /\ req[r].pc = "count"
                        /\ AtLeast(Cardinality({a \in aliases :
                                                    /\ a.user_id = req[r].l.me.id
                                                    /\ a.disabled = 0}),
                                   req[r].l.me.alias_limit)]_vars

\* Bob's create of Alice's local part, sent in upper case, has been
\* answered 400 while Bob owns no alias and Alice still owns hers.
C32_Witness ==
    /\ out.op = "aliasCreate" /\ out.cookie = base64Url(2)
    /\ out.body = [local |-> <<" ", "A">>]
    /\ out.resp = badRequest("Alias sudah dipakai")
    /\ aliases = {[local_part |-> <<"a">>, user_id |-> 1, disabled |-> 0, created_at |-> 0]}

\* The aliases of a user that are not disabled.
ActiveAliases(id) == {a \in aliases : a.user_id = id /\ a.disabled = 0}

\* C33: a create whose count finds the user at alias_limit is answered 403,
\* and (no alias_limit being changed) no user ever has more aliases that
\* are not disabled than the alias_limit, whatever the interleaving of the
\* creates.
C33_QuotaHolds ==
    /\ [][\A r \in Reqs :
              /\ At(r, "aliasCreate", "count")
              /\ req'[r].pc # "count"
              /\ AtLeast(Cardinality(ActiveAliases(req[r].l.me.id)), req[r].l.me.alias_limit)
              => out'.resp.status = 403 /\ aliases' = aliases]_vars
    /\ [](\A u \in users :
             ~AtLeast(Cardinality(ActiveAliases(u.id)), u.alias_limit)
                 \/ Cardinality(ActiveAliases(u.id)) = u.alias_limit.num)

AdminOps == {"adminList", "adminPatch"}

\* The step starts a request to an admin endpoint with this cookie.
AdminArrives(c) ==
    \/ out'.op \in AdminOps /\ out'.cookie = c /\ req' = req
    \/ \E r \in Reqs : /\ req[r].pc = "idle" /\ req'[r].pc # "idle"
                        /\ req'[r].op \in AdminOps /\ req'[r].cookie = c

\* The enabled users with an unexpired session of this cookie.
SessionOwners(c) ==
    {u \in users : /\ u.disabled = 0
                   /\ \E s \in sessions : /\ s.token_hash = sha256Base64Url(c)
                                           /\ s.user_id = u.id
                                           /\ s.expires_at > now}

\* C34: a request to an admin endpoint through the session of an enabled
\* user who is not admin is answered 403 at once and changes nothing; a
\* request to one goes on only through the session of an enabled admin; and
\* a user's alias_limit or disabled changes only in the UPDATE of such a
\* PATCH.
C34_AdminOnly ==
    [][/\ \A c \in Cookies :
             AdminArrives(c) =>
                 /\ (\E u \in SessionOwners(c) : u.role # "admin") =>
                        /\ out'.resp.status = 403
                        /\ store' = store
                        /\ req' = req
                 /\ req' # req => \E u \in SessionOwners(c) : u.role = "admin"
       /\ \A u \in users : \A v \in users' :
             u.id = v.id /\ Standing(u) # Standing(v) =>
                 \E r \in Reqs : /\ At(r, "adminPatch", "update")
                                  /\ req[r].body.target = u.id]_vars

\* Bob has just been refused with 403 after Alice set his quota and
\* disabled herself.
C34_Witness ==
    /\ out.op = "adminPatch" /\ out.cookie = base64Url(2) /\ out.resp.status = 403
    /\ \E u \in users : u.id = 2 /\ u.alias_limit = Num(1) /\ u.disabled = 0
    /\ \E u \in users : u.id = 1 /\ u.disabled = 1

\* The users a cookie's sessions belong to.
OwnerIds(c) == {s.user_id : s \in {x \in sessions : x.token_hash = sha256Base64Url(c)}}

\* The step ends handler r of this route with a 200.
EndsOk(r, op) ==
    /\ req[r].op = op /\ req[r].pc # "idle" /\ req'[r].pc = "idle"
    /\ out'.resp.status = 200

\* C35: a list or a read answered to a request of user A carries only rows
\* of emails whose user_id is A (for a list: of the asked local part); a
\* step removes an emails row only as the DELETE of a delete by the row's
\* user; and a list passes its alias check only while A owns the alias and
\* it is not disabled, else it is answered 403: so a user who registers a
\* local part another user had sees none of the mail stored for the other.
C35_MailboxIsolation ==
    [][/\ \A r \in Reqs :
             EndsOk(r, "emailList") \/ EndsOk(r, "emailGet") =>
                 \A d \in out'.resp.data :
                     \E e \in emails : /\ e.id = d.id
                                       /\ e.user_id \in OwnerIds(req[r].cookie)
                                       /\ req[r].op = "emailList" =>
                                              e.local_part = toLowerCase(trim(req[r].body))
       /\ \A e \in emails \ emails' :
             \E r \in Reqs : /\ At(r, "emailDelete", "delete")
                              /\ req[r].body = e.id
                              /\ e.user_id \in OwnerIds(req[r].cookie)
       /\ \A r \in Reqs :
             At(r, "emailList", "own") /\ req'[r] # req[r] =>
                 IF \E a \in aliases : /\ a.local_part = toLowerCase(trim(req[r].body))
                                       /\ a.user_id \in OwnerIds(req[r].cookie)
                                       /\ a.disabled = 0
                 THEN req'[r].pc = "select"
                 ELSE req'[r].pc = "idle" /\ out'.resp.status = 403]_vars

\* Bob owns the local part a, mail stored for Alice under a is still there,
\* and Bob's list by a has just been answered 200 with no row.
C35_Witness ==
    /\ \E a \in aliases : a.local_part = <<"a">> /\ a.user_id = 2
    /\ \E e \in emails : e.local_part = <<"a">> /\ e.user_id = 1
    /\ out.op = "emailList" /\ out.cookie = base64Url(2)
    /\ out.resp = jsonData({})

\* The recipient as the claim reads it: the text before the @ and the text
\* after it, in lower case (the recipients here have one @ at most).
HasAt(s) == \E i \in 1..Len(s) : s[i] = "@"
AtIndex(s) == CHOOSE i \in 1..Len(s) : s[i] = "@"
LocalOf(to) == SubSeq(toLowerCase(to), 1, AtIndex(to) - 1)
DomainOf(to) == SubSeq(toLowerCase(to), AtIndex(to) + 1, Len(to))

ConfiguredMax ==
    IF env.MAX_STORE_BYTES = Undefined THEN DefaultMaxStore ELSE env.MAX_STORE_BYTES.num

\* The aliases a message can be stored for: the recipient's domain is the
\* configured one, the alias of its local part and the alias's owner are
\* not disabled, and the raw size is within the configured maximum.
Deliverable(m) ==
    IF HasAt(m.to) /\ DomainOf(m.to) = toLowerCase(env.MAIL_DOMAIN)
          /\ m.rawSize <= ConfiguredMax
    THEN {a \in aliases : /\ a.local_part = LocalOf(m.to)
                          /\ a.disabled = 0
                          /\ \E u \in users : u.id = a.user_id /\ u.disabled = 0}
    ELSE {}

\* C36: email() goes on to its INSERT exactly for a message that has a
\* deliverable alias and parses, taking the alias's user_id and local_part
\* at that moment; any other message is rejected at once with nothing
\* written; a handler that went on ends either accepted, with exactly one
\* emails row of that user_id and local_part added, or (its INSERT having
\* thrown) rejected with nothing added; and emails grows in no other step.
C36_InboundStored ==
    [][/\ out'.op = "email" /\ req' = req =>
             /\ Deliverable(out'.body) = {} \/ ~out'.body.parses
             /\ out'.resp.error # ""
             /\ store' = store
       /\ \A r \in Reqs :
             req[r].pc = "idle" /\ req'[r].op = "email" =>
                 /\ req'[r].body.parses
                 /\ \E a \in Deliverable(req'[r].body) :
                        /\ req'[r].l.user_id = a.user_id
                        /\ req'[r].l.local_part = a.local_part
                 /\ store' = store
       /\ \A r \in Reqs :
             req[r].op = "email" /\ req'[r].pc = "idle" =>
                 \/ /\ out'.resp = Accepted
                    /\ \E e \in emails' \ emails :
                           /\ emails' = emails \cup {e}
                           /\ e.user_id = req[r].l.user_id
                           /\ e.local_part = req[r].l.local_part
                           /\ e.to_addr = req[r].body.to
                 \/ /\ out'.resp.error # ""
                    /\ emails' = emails
       /\ emails' \ emails # {} =>
             \E r \in Reqs : req[r].op = "email" /\ req'[r].pc = "idle"]_vars

\* A message for a@b.io was accepted for Alice while she owned a; she has
\* deleted the alias since, and the row stored afterwards carries her id.
C36_Witness ==
    /\ out.op = "email" /\ out.resp = Accepted
    /\ \E e \in emails : e.user_id = 1 /\ e.local_part = <<"a">>
    /\ \A a \in aliases : a.local_part # <<"a">>


\* The user a cookie resolves to, or 0.
ResolvesTo(c) == IF getUserBySession(c) = Null THEN 0 ELSE getUserBySession(c).id

\* C37: a confirm that passed its checks writes, in its UPDATE, only the
\* salt, hash and iterations of the row of the token's user, and removes,
\* in its DELETE before the 200, only the reset_tokens rows of the token it
\* consumed; neither step writes sessions, so each cookie resolves to the
\* user it resolved to before, and the other reset tokens, of that user too,
\* stay as they were: a confirm with a token whose row is there and
\* unexpired is never answered "Token invalid/expired".
C37_ConfirmFrame ==
    [][/\ \A r \in Reqs :
              At(r, "resetConfirm", "update") /\ At(r, "resetConfirm", "delete")' =>
                  /\ \A u \in users :
                         \E v \in users' :
                             /\ Identity(v) = Identity(u)
                             /\ Standing(v) = Standing(u)
                             /\ u.id # req[r].l.user_id => v = u
                  /\ Cardinality(users') = Cardinality(users)
                  /\ \E v \in users' : /\ v.id = req[r].l.user_id
                                       /\ v.pass_salt = req[r].l.pass_salt
                                       /\ v.pass_hash = req[r].l.pass_hash
                  /\ UNCHANGED <<sessions, reset_tokens, aliases, emails>>
                  /\ \A c \in Cookies : ResolvesTo(c)' = ResolvesTo(c)
       /\ \A r \in Reqs :
              At(r, "resetConfirm", "delete") /\ req'[r].pc = "idle"
                      /\ out'.resp.status = 200 =>
                  /\ reset_tokens' = {rt \in reset_tokens :
                                          rt.token_hash # sha256Base64Url(req[r].body.token)}
                  /\ UNCHANGED <<users, sessions, aliases, emails>>
                  /\ \A c \in Cookies : ResolvesTo(c)' = ResolvesTo(c)
       /\ out'.op = "resetConfirm" /\ out'.resp.error = "Token invalid/expired" =>
              ~ResetTokenUsable({rt \in reset_tokens :
                                     rt.token_hash = sha256Base64Url(out'.body.token)})]_vars

\* Bob's password was set by a confirm with his first token, answered 200;
\* the cookie of the session he had before still resolves to him, and a
\* confirm with his second token has passed its checks.
C37_Witness ==
    /\ \E p \in confirmed : p.token = base64Url(3) /\ \E u \in users : u.id = 2 /\ u.pass_salt = p.by
    /\ ResolvesTo(base64Url(2)) = 2
    /\ \E r \in Reqs : /\ At(r, "resetConfirm", "update")
                       /\ req[r].body.token = base64Url(4)
                       /\ req[r].l.user_id = 2


\* The users rows a login body names.
NamedBy(body) ==
    {u \in users : u.username = toLowerCase(trim(body.id)) \/ u.email = toLowerCase(trim(body.id))}

\* C38: a confirm is turned away in its first step only for its body or its
\* token (no JSON, no token, a short password, no unexpired row), never for
\* the disabled flag of the token's user; its UPDATE sets that user's
\* password also when the user is disabled; no step of a confirm changes a
\* disabled flag or writes sessions; and while a user is disabled a login
\* that names the user is answered 400 or 401 and no cookie resolves to the
\* user.
C38_DisabledReset ==
    [][/\ out'.op = "resetConfirm" /\ req' = req =>
              /\ out'.resp.status = 400
              /\ \/ out'.body = Null
                 \/ out'.body.token = NoCookie
                 \/ Len(out'.body.newPw) < MinPwLen
                 \/ ~ResetTokenUsable({rt \in reset_tokens :
                                           rt.token_hash = sha256Base64Url(out'.body.token)})
       /\ \A r \in Reqs :
              At(r, "resetConfirm", "update") /\ At(r, "resetConfirm", "delete")' =>
                  \E v \in users' : /\ v.id = req[r].l.user_id
                                    /\ v.pass_salt = req[r].l.pass_salt
                                    /\ v.pass_hash = req[r].l.pass_hash
       /\ (\/ out'.op = "resetConfirm" /\ req' = req
           \/ \E r \in Reqs :
                  req'[r] # req[r] /\ "resetConfirm" \in {req[r].op, req'[r].op}) =>
              /\ sessions' = sessions
              /\ \A u \in users : \E v \in users' : v.id = u.id /\ v.disabled = u.disabled
       /\ out'.op = "login" /\ out'.body # Null
               /\ (\E u \in NamedBy(out'.body) : u.disabled # 0) =>
              out'.resp.status \in {400, 401}
       /\ \A r \in Reqs :
              req[r].pc = "idle" /\ req'[r].op = "login" =>
                  \A u \in NamedBy(req'[r].body) : u.disabled = 0
       /\ out'.op = "me" /\ out'.resp.status = 200 =>
              \E u \in users : u.id = out'.resp.user.id /\ u.disabled = 0
       /\ \A c \in Cookies : \A u \in users' : u.disabled # 0 => ResolvesTo(c)' # u.id]_vars

\* Bob is disabled, his password is the one a confirm with his token set, the
\* confirm was answered 200, and his login with that password is answered
\* 401.
C38_Witness ==
    /\ \E u \in users : /\ u.id = 2 /\ u.disabled # 0
                        /\ u.pass_hash = pbkdf2HashBase64Url(Pw3, base64UrlToBytes(u.pass_salt),
                                                             pbkdf2Iters(env))
                        /\ \E p \in confirmed : p.token = base64Url(3) /\ p.by = u.pass_salt
    /\ out.op = "login" /\ out.body.pw = Pw3 /\ out.resp = unauthorized("Login gagal")


\* The iteration count a stored hash was derived with.
DerivedWith(u) == u.pass_hash[3]

\* C39: where the table has the pass_iters column, every users row carries
\* in pass_iters the iteration count its hash was derived with, and a login
\* that names an enabled user with the password of the row's hash is never
\* answered 401, whatever env.PBKDF2_ITERS is by then.
C39_StoredItersVerify ==
    /\ [](env.DB.pass_iters => \A u \in users : u.pass_iters = DerivedWith(u))
    /\ [][env.DB.pass_iters /\ out'.op = "login" /\ out'.body # Null
               /\ (\E u \in NamedBy(out'.body) :
                       u.disabled = 0 /\ u.pass_hash[1] = out'.body.pw) =>
              out'.resp.status # 401]_vars

====
